---- MODULE Spec2Model ----
(***************************************************************************)
(* Content-acquisition pipeline of info-feed-app: getYouTubeContent        *)
(* (backend/utils/youtube-helper.js), YouTubeAudioHelper (lines 201-654 of *)
(* backend/utils/producthunt-client.js), WhisperService and                *)
(* YouTubeDataService (unnamed/part_004).                                  *)
(*                                                                         *)
(* Strings are sequences of tokens: a token is one character ("a", " ")    *)
(* or one literal of the source (a fixed message, a label).  File sizes    *)
(* are whole kilobytes.  An error is its message, a sequence of tokens;    *)
(* wrapping an error prepends the wrapper's literal.                       *)
(***************************************************************************)
EXTENDS Integers, Sequences, FiniteSets, TLC

\* ------------------------------------------------------------------ bounds
MaxTextLen == 1      \* longest text an external service returns
MaxClock == 1        \* largest value Date.now() takes

\* ------------------------------------------------------- program constants
IdLen == 11                 \* {11} in the video id patterns
DescMinLen == 50            \* description.trim().length > 50
DescSummaryLimit == 1000    \* description.substring(0, 1000)
KB == 1024                  \* kilobytes in a megabyte (1024 * 1024 bytes)
SizeLimitMB == 25           \* fileSizeMB > 25
PrefixMinutes == 20         \* splitAudioFile(audioFilePath, 20)
ByteSplitCapMB == 20        \* Math.min(targetBytes, 20 * 1024 * 1024)
MinTotalMinutes == 30       \* Math.max(30, inputSizeMB * 1.5)
NumDownloadStrategies == 4  \* ytdl-core, yt-dlp, pytube, youtube-dl

\* null and undefined: a one-token sequence, distinct from every string
Null == <<"null">>

\* ------------------------------------------------------------------ strings
WhiteSpace == {" ", "\n"}

RECURSIVE TrimLeft(_)
TrimLeft(s) ==
  IF s = <<>> THEN s
  ELSE IF Head(s) \in WhiteSpace THEN TrimLeft(Tail(s)) ELSE s

RECURSIVE TrimRight(_)
TrimRight(s) ==
  IF s = <<>> THEN s
  ELSE IF s[Len(s)] \in WhiteSpace THEN TrimRight(SubSeq(s, 1, Len(s) - 1)) ELSE s

\* String.prototype.trim
Trim(s) == TrimRight(TrimLeft(s))

\* text && text.trim().length > 0
NonBlank(s) == s # Null /\ Len(s) > 0 /\ Len(Trim(s)) > 0

\* JavaScript truthiness of a string or null
Truthy(s) == s # Null /\ Len(s) > 0

\* String.prototype.substring(0, n)
Take(s, n) == IF Len(s) <= n THEN s ELSE SubSeq(s, 1, n)

Rep(c, n) == [i \in 1..n |-> c]

Chars == {"a", " "}

\* the texts an external service (subtitles, Whisper) may return
Texts == UNION {[1..n -> Chars] : n \in 0..MaxTextLen}

\* String.prototype.includes on a message: one of its literals is `lit`
Includes(msg, lit) == \E i \in 1..Len(msg) : msg[i] = lit

\* new Error(`${prefix}: ${error.message}`)
Wrap(prefix, msg) == <<prefix>> \o msg

\* --------------------------------------------------------------------- URLs
\* A URL is [form, tail]: the literal that precedes the video id and the
\* characters that follow it; NullUrl is a null or empty url.
\*   watch     https://www.youtube.com/watch?v=<tail>
\*   youtu.be  https://youtu.be/<tail>
\*   embed     https://www.youtube.com/embed/<tail>
\*   shorts    https://www.youtube.com/shorts/<tail>
\*   watchq    https://www.youtube.com/watch?feature=share&v=<tail>
\*   other     https://example.com/video/<tail>
IdChars == {"x", "y", "t", "1", "-", "_"}      \* [a-zA-Z0-9_-]
HelperStop == {"&", "\n", "?", "#"}            \* [^&\n?#]

Url(form, tail) == [form |-> form, tail |-> tail]
NullUrl == Url("null", <<>>)

\* ([a-zA-Z0-9_-]{11}) right after the prefix: the first 11 characters,
\* when they are all id characters; Null when the pattern does not match
Capture11(tail) ==
  IF Len(tail) >= IdLen /\ \A i \in 1..IdLen : tail[i] \in IdChars
  THEN SubSeq(tail, 1, IdLen) ELSE Null

RECURSIVE TakeUntilStop(_)
TakeUntilStop(tail) ==
  IF tail = <<>> \/ Head(tail) \in HelperStop THEN <<>>
  ELSE <<Head(tail)>> \o TakeUntilStop(Tail(tail))

\* ([^&\n?#]+) right after the prefix
CaptureUntilStop(tail) ==
  IF TakeUntilStop(tail) = <<>> THEN Null ELSE TakeUntilStop(tail)

\* youtube-helper.js patterns[0] and patterns[1]
YhPattern1(url) ==
  IF url.form \in {"watch", "youtu.be", "embed", "shorts"} THEN Capture11(url.tail) ELSE Null

YhPattern2(url) ==
  IF url.form \in {"watch", "watchq"} THEN Capture11(url.tail) ELSE Null

MatchedId(url) == IF YhPattern1(url) # Null THEN YhPattern1(url) ELSE YhPattern2(url)

InvalidUrlMsg == <<"Invalid YouTube URL: Unable to extract video ID">>

\* normalizeYouTubeUrl: [ok, val] with val the normalized URL (NullUrl for a
\* falsy url), or [ok |-> FALSE, val |-> the error thrown]
normalizeYouTubeUrl(url) ==
  IF url = NullUrl THEN [ok |-> TRUE, val |-> NullUrl]
  ELSE IF MatchedId(url) = Null THEN [ok |-> FALSE, val |-> InvalidUrlMsg]
  ELSE [ok |-> TRUE, val |-> Url("watch", MatchedId(url))]

\* extractVideoId of youtube-helper.js: null.match throws a TypeError for the
\* null that normalizeYouTubeUrl returns, and the catch turns it into null
extractVideoIdMut(url) == Null
extractVideoId(url) ==
  LET n == normalizeYouTubeUrl(url) IN
  IF ~n.ok \/ n.val = NullUrl THEN Null
  ELSE IF n.val.form = "watch" THEN Capture11(n.val.tail) ELSE Null

\* YouTubeAudioHelper.extractVideoId: its own two patterns
HelperExtractVideoId(url) ==
  IF url.form \in {"watch", "youtu.be", "embed"} THEN CaptureUntilStop(url.tail)
  ELSE IF url.form = "shorts" THEN CaptureUntilStop(url.tail)
  ELSE Null

V1 == Rep("x", IdLen)
V2 == Rep("y", IdLen)

\* the URLs a run is started with
Urls ==
  { Url("watch", V1),
    Url("watchq", V2),
    Url("youtu.be", Rep("x", 3)),
    Url("other", V1),
    NullUrl }

\* -------------------------------------------------------------------- sizes
\* fileSizeMB > n, fileSizeMB <= n for a size in kilobytes
OverMB(sizeKB, n) == sizeKB > n * KB
\* sizeMB < 0.1 and sizeMB < 0.01
UnderTenthMBMut(sizeKB) == FALSE
UnderTenthMB(sizeKB) == sizeKB * 10 < KB
UnderHundredthMB(sizeKB) == sizeKB * 100 < KB

Min(a, b) == IF a < b THEN a ELSE b
Max(a, b) == IF a > b THEN a ELSE b

\* the sizes a downloaded or ffmpeg-written file may have
FileSizes == {5 * KB, 22 * KB, 30 * KB}

\* -------------------------------------------------------------------- paths
\* A path in the temp directory is its file name, a sequence of tokens.
\* downloadAudioWithYtdl, downloadAudioWithPytube: `${videoId}.mp4`;
\* downloadAudio, downloadAudioWithYoutubeDl: `${videoId}.mp3`
StrategyNames == <<"ytdl-core", "yt-dlp", "pytube", "youtube-dl">>
StrategyExt == <<".mp4", ".mp3", ".mp4", ".mp3">>

AudioPath(strategy, videoId) == videoId \o <<StrategyExt[strategy]>>

\* path.extname
ExtName(path) == path[Len(path)]

\* splitAudioFile: `split_${timestamp}${ext}`
SplitPath(timestamp, audioFilePath) ==
  <<"split_", ToString(timestamp), ExtName(audioFilePath)>>

\* createAudioChunk: `chunk_${startMinutes}m_${timestamp}${ext}`
ChunkPath(startMinutes, timestamp, inputPath) ==
  <<"chunk_", ToString(startMinutes), "m_", ToString(timestamp), ExtName(inputPath)>>

\* -------------------------------------------------------------------- state
VARIABLES
  url,            \* the url getYouTubeContent is called with
  openaiKey,      \* process.env.OPENAI_API_KEY is set
  ffmpeg,         \* `ffmpeg -version` succeeds on this machine
  runs,           \* the runs that share the temp directory (two-run model)
  pc,             \* where the run is: the await it is suspended at, or a step
  hung,           \* the external call awaited will never answer
  ret,            \* [ok, val]: what the callee just returned (ok) or threw
  content,        \* getYouTubeContent: content
  method,         \* getYouTubeContent: method
  methods,        \* getYouTubeContent: methods
  result,         \* the object getYouTubeContent returned, NoResult before
  thrown,         \* the Error getYouTubeContent threw, NoError before
  normalizedUrl,  \* getYouTubeTranscript: normalizedUrl
  videoId,        \* getYouTubeTranscript: videoId
  subStep,        \* getYouTubeTranscript: 1, 2 = methods 1, 2; 3..5 = languages
  errors,         \* getYouTubeTranscript: errors
  cache,          \* table transcript_cache: video id -> transcript_text
  dlStep,         \* downloadAudioWithFallback: the strategy being tried
  audioFilePath,  \* processYouTubeAudio: audioFilePath
  description,    \* getYouTubeDescription: the description last fetched
  files,          \* the temp directory: path -> size in KB
  clock,          \* the last value Date.now() returned
  outputPath,     \* splitAudioFile: outputPath
  splitFilePath,  \* WhisperService.transcribeAudio: splitFilePath
  target,         \* transcribeAudioFile: audioFilePath
  stratIdx,       \* transcribeAudioFile: index into strategies
  lastError,      \* transcribeAudioFile: lastError
  attempt,        \* transcribeWithSDK: attempt
  waits,          \* the waits transcribeWithSDK has slept, in ms, in order
  directCtx,      \* who awaits transcribeAudioFileDirect
  chunkIndex,     \* transcribeWithSmallChunks: chunkIndex
  chunkPath,      \* createAudioChunk: chunkPath
  tempChunkPaths, \* transcribeWithSmallChunks: tempChunkPaths
  combined,       \* transcribeWithSmallChunks: combinedTranscription
  entered,        \* history: the stages getYouTubeContent has entered, in order
  called,         \* history: the kinds of external call the run has made
  uploaded,       \* history: the paths the transcribeAudio call in progress sent to Whisper
  articles,       \* table articles: article id -> summary_status
  summary_requests, \* table summary_requests: the rows, indexed by their id
  scheduledTasks, \* scheduler.js: scheduledTasks, each task with its running flag
  day             \* the days that have passed at 08:00 JST; day 0 is a Sunday

appV == <<articles, summary_requests, scheduledTasks, day>>
envV == <<url, openaiKey, ffmpeg, runs, appV>>
orchV == <<content, method, methods, result, thrown>>
subV == <<normalizedUrl, videoId, subStep, errors>>
audioV == <<dlStep, audioFilePath, description>>
fsV == <<files, clock>>
sdkV == <<attempt, waits>>
chunkV == <<chunkIndex, chunkPath, tempChunkPaths, combined>>
whisperV == <<outputPath, splitFilePath, target, stratIdx, lastError, directCtx, sdkV, chunkV>>
histV == <<entered, called, uploaded>>

vars == <<envV, pc, hung, ret, orchV, subV, cache, audioV, fsV, whisperV, histV>>

Ok(v) == [ok |-> TRUE, val |-> v]
Err(msg) == [ok |-> FALSE, val |-> msg]
NoRet == Ok(Null)

\* the run moves to p; a call awaited there has not been given up on
Goto(p) == pc' = p /\ hung' = FALSE

\* the transcript_cache rows an earlier run may have left
CachedTexts == {t \in Texts : NonBlank(t)}
InitCaches ==
  {<<>>} \cup {[k \in {V1} |-> t] : t \in CachedTexts}

\* what a run returns and throws before it has ended
NoResult == [content |-> Null, method |-> Null, methods |-> <<>>, length |-> 0]
NoError == [message |-> Null]

\* no call is in progress and the temp directory is empty
Idle ==
  /\ pc = "start"
  /\ hung = FALSE
  /\ ret = NoRet
  /\ content = Null /\ method = Null /\ methods = <<>>
  /\ result = NoResult /\ thrown = NoError
  /\ normalizedUrl = NullUrl /\ videoId = Null /\ subStep = 0 /\ errors = <<>>
  /\ dlStep = 0 /\ audioFilePath = Null /\ description = Null
  /\ files = <<>> /\ clock = 0
  /\ outputPath = Null /\ splitFilePath = Null /\ target = Null /\ stratIdx = 0 /\ lastError = Null
  /\ attempt = 0 /\ waits = <<>> /\ directCtx = "none"
  /\ chunkIndex = 0 /\ chunkPath = Null /\ tempChunkPaths = <<>> /\ combined = <<>>
  /\ entered = <<>> /\ called = {} /\ uploaded = {}
  /\ articles = <<>> /\ summary_requests = <<>> /\ scheduledTasks = <<>> /\ day = 0

Init ==
  /\ url \in Urls
  /\ openaiKey \in BOOLEAN
  /\ ffmpeg \in BOOLEAN
  /\ cache \in InitCaches
  /\ runs = <<>>
  /\ Idle

\* ------------------------------------------------- getYouTubeTranscript
NoTranscriptMsg == <<"No transcript available. Tried multiple methods: ">>
SubtitleErrors == {<<"Transcript is disabled on this video">>}

\* what YoutubeTranscript.fetchTranscript answers: the joined text of the
\* items, or an error; without a url to fetch it can only fail
SubtitleOutcomes(nurl) ==
  {Err(e) : e \in SubtitleErrors}
    \cup (IF nurl = NullUrl THEN {} ELSE {Ok(t) : t \in Texts})

\* the attempt that follows attempt k, 0 when none is left: method 2 is
\* skipped without a video id, then the languages 'en', 'ja', 'en-US'
NextSubStepMut(k, vid) == 0
NextSubStep(k, vid) ==
  IF k = 1 THEN (IF vid # Null THEN 2 ELSE 3)
  ELSE IF k < 5 THEN k + 1 ELSE 0

SubStepLabel(k) ==
  <<"Method 1 failed: ", "Method 2 failed: ", "Language en failed: ",
    "Language ja failed: ", "Language en-US failed: ">>[k]

\* lines 59-73: normalize, extract the id, ask the cache
TranscriptBegin ==
  /\ pc = "start"
  /\ entered' = Append(entered, "transcript")
  /\ LET n == normalizeYouTubeUrl(url) IN
     IF ~n.ok
     THEN /\ ret' = Err(n.val)
          /\ Goto("sub_done")
          /\ UNCHANGED <<subV, called>>
     ELSE /\ normalizedUrl' = n.val
          /\ videoId' = extractVideoId(n.val)
          /\ errors' = <<>>
          /\ ret' = NoRet
          /\ IF extractVideoId(n.val) # Null
             THEN Goto("sub_cache") /\ subStep' = 0 /\ UNCHANGED called
             ELSE Goto("sub_fetch") /\ subStep' = 1 /\ called' = called \cup {"subtitle"}
  /\ UNCHANGED <<envV, orchV, cache, audioV, fsV, whisperV, uploaded>>

\* getCachedTranscript answers (lines 68-73, 210-234): a database error
\* resolves null like a miss
CacheLookupReply ==
  /\ pc = "sub_cache"
  /\ \E dbError \in BOOLEAN :
       LET cached == IF ~dbError /\ videoId \in DOMAIN cache THEN cache[videoId] ELSE Null IN
       IF Truthy(cached)
       THEN /\ ret' = Ok(cached)
            /\ Goto("sub_done")
            /\ UNCHANGED <<subStep, called>>
       ELSE /\ ret' = NoRet
            /\ Goto("sub_fetch")
            /\ subStep' = 1
            /\ called' = called \cup {"subtitle"}
  /\ UNCHANGED <<envV, orchV, normalizedUrl, videoId, errors, cache, audioV, fsV,
                 whisperV, entered, uploaded>>

\* one fetchTranscript attempt answers (lines 75-134)
SubtitleReplyWith(o) ==
  /\ pc = "sub_fetch"
  /\ ~hung
  /\ IF o.ok /\ NonBlank(o.val)
     THEN /\ ret' = o
          /\ IF videoId # Null THEN Goto("sub_cachewrite") ELSE Goto("sub_done")
          /\ UNCHANGED <<subStep, errors>>
     ELSE /\ errors' = IF o.ok THEN errors
                       ELSE Append(errors, Wrap(SubStepLabel(subStep), o.val))
          /\ IF NextSubStep(subStep, videoId) # 0
             THEN /\ subStep' = NextSubStep(subStep, videoId)
                  /\ ret' = NoRet
                  /\ Goto("sub_fetch")
             ELSE /\ subStep' = subStep
                  /\ ret' = Err(NoTranscriptMsg)
                  /\ Goto("sub_done")
  /\ UNCHANGED <<envV, orchV, normalizedUrl, videoId, cache, audioV, fsV, whisperV, histV>>

\* YoutubeTranscript.fetchTranscript answers one of its outcomes
SubtitleReply == \E o \in SubtitleOutcomes(normalizedUrl) : SubtitleReplyWith(o)

\* cacheTranscript answers (lines 241-258): INSERT OR REPLACE, an error is
\* only logged; then the text is returned
CacheWriteReply ==
  /\ pc = "sub_cachewrite"
  /\ \E dbError \in BOOLEAN :
       cache' = IF dbError THEN cache
                ELSE [k \in DOMAIN cache \cup {videoId} |->
                        IF k = videoId THEN ret.val ELSE cache[k]]
  /\ Goto("sub_done")
  /\ UNCHANGED <<envV, ret, orchV, subV, audioV, fsV, whisperV, histV>>

\* ---------------------------------------------------------- temp directory
Put(f, path, size) == [k \in DOMAIN f \cup {path} |-> IF k = path THEN size ELSE f[k]]
Remove(f, path) == [k \in DOMAIN f \ {path} |-> f[k]]

\* cleanupTempFile: unlink the file when it exists
cleanupTempFileMut(f, path) == f
cleanupTempFile(f, path) == IF path \in DOMAIN f THEN Remove(f, path) ELSE f

\* --------------------------------------------- getYouTubeContent, stage one
EntryMut(m, ok, msg) == [method |-> m, success |-> TRUE, error |-> msg]
Entry(m, ok, msg) == [method |-> m, success |-> ok, error |-> msg]

\* where getYouTubeContent goes when getYouTubeTranscript has returned (ok)
\* or thrown: the audio stage is inside the catch
AfterTranscriptMut(ok) == "audio_begin"
AfterTranscript(ok) == IF ok THEN "finish" ELSE "audio_begin"

\* lines 337-343
TranscriptStageDone ==
  /\ pc = "sub_done"
  /\ IF ret.ok
     THEN /\ content' = ret.val
          /\ method' = <<"transcript">>
          /\ methods' = Append(methods, Entry("transcript", TRUE, Null))
     ELSE /\ methods' = Append(methods, Entry("transcript", FALSE, ret.val))
          /\ UNCHANGED <<content, method>>
  /\ Goto(AfterTranscript(ret.ok))
  /\ ret' = NoRet
  /\ normalizedUrl' = NullUrl /\ videoId' = Null /\ subStep' = 0 /\ errors' = <<>>
  /\ UNCHANGED <<envV, result, thrown, cache, audioV, fsV, whisperV, histV>>

\* ------------------------------------------------------ YouTubeAudioHelper
\* the message prefix of line 451 (Japanese in the source: audio download failed)
DownloadFailedLabel == "audio download failed: "
HelperInvalidUrlMsg == <<"Invalid YouTube URL">>
StrategyFailMsg ==
  << <<"ytdl-core download failed">>, <<"Audio download failed: ">>,
     <<"Pytube download failed: ">>, <<"youtube-dl failed: ">> >>
NotCreatedMsg ==
  << <<"Audio file was not created">>, <<"Audio file was not created">>,
     <<"Pytube download failed: ">>, <<"youtube-dl failed: ">> >>

\* lines 345-347, 382-389, 583-590: the audio stage starts with the first
\* download strategy
AudioStageBegin ==
  /\ pc = "audio_begin"
  /\ entered' = Append(entered, "audio")
  /\ audioFilePath' = Null
  /\ dlStep' = 1
  /\ Goto("dl_try")
  /\ UNCHANGED <<envV, ret, orchV, subV, cache, description, fsV, whisperV, called, uploaded>>

\* downloadAudioWithFallback after strategy dlStep failed with msg: the next
\* strategy, or the throw of the last catch (lines 418-453)
DownloadFailedMut(msg) == dlStep' = dlStep /\ ret' = NoRet /\ Goto("dl_try")
DownloadFailed(msg) ==
  IF dlStep < NumDownloadStrategies
  THEN dlStep' = dlStep + 1 /\ ret' = NoRet /\ Goto("dl_try")
  ELSE dlStep' = dlStep /\ ret' = Err(Wrap(DownloadFailedLabel, msg)) /\ Goto("dl_done")

\* a strategy starts: without a video id it rejects at once, otherwise the
\* library or the subprocess runs (lines 228-231, 292-295, 362-365, 462-465)
DownloadTry ==
  /\ pc = "dl_try"
  /\ IF HelperExtractVideoId(url) = Null
     THEN DownloadFailed(HelperInvalidUrlMsg) /\ UNCHANGED called
     ELSE /\ Goto("dl_wait") /\ called' = called \cup {"download"}
          /\ UNCHANGED <<dlStep, ret>>
  /\ UNCHANGED <<envV, orchV, subV, cache, audioFilePath, description, fsV, whisperV, entered, uploaded>>

\* what the download of strategy k does:
\*   written  the stream finished or the tool exited 0, and wrote the file,
\*            which may be empty (under a kilobyte)
\*   exit0    the tool exited 0 and wrote no file (the subprocess strategies)
\*   failed   an error or a non-zero exit, nothing written
\*   partial  ytdl-core only: the stream failed after createWriteStream
DownloadOutcomes(k) ==
  {[kind |-> "written", size |-> sz] : sz \in FileSizes \cup {0}}
    \cup {[kind |-> "failed", size |-> 0]}
    \cup (IF k = 1 THEN {[kind |-> "partial", size |-> 0]}
                   ELSE {[kind |-> "exit0", size |-> 0]})

\* the download answers (lines 255-276, 331-351, 396-409, 489-499); none of
\* the four is given a timeout
DownloadReplyMut ==
  /\ pc = "dl_wait"
  /\ files' = files
  /\ DownloadFailed(StrategyFailMsg[dlStep])
  /\ UNCHANGED <<envV, orchV, subV, cache, audioFilePath, description, clock, whisperV, histV>>
DownloadReply ==
  /\ pc = "dl_wait"
  /\ ~hung
  /\ \E o \in DownloadOutcomes(dlStep) :
       LET path == AudioPath(dlStep, HelperExtractVideoId(url))
           wrote == o.kind \in {"written", "partial"}
           after == IF wrote THEN Put(files, path, o.size) ELSE files
           resolved == o.kind = "written" \/ (o.kind = "exit0" /\ path \in DOMAIN files)
       IN /\ files' = after
          /\ IF resolved
             THEN ret' = Ok(path) /\ Goto("dl_done") /\ UNCHANGED dlStep
             ELSE DownloadFailed(IF o.kind = "exit0" THEN NotCreatedMsg[dlStep]
                                 ELSE StrategyFailMsg[dlStep])
  /\ UNCHANGED <<envV, orchV, subV, cache, audioFilePath, description, clock, whisperV, histV>>

\* processYouTubeAudio, lines 590-599
DownloadDone ==
  /\ pc = "dl_done"
  /\ IF ret.ok
     THEN audioFilePath' = ret.val /\ ret' = NoRet /\ Goto("hta_begin")
     ELSE UNCHANGED <<audioFilePath, ret>> /\ Goto("pya_finally")
  /\ dlStep' = 0
  /\ UNCHANGED <<envV, orchV, subV, cache, description, fsV, whisperV, histV>>

\* the message prefix of line 538 (Japanese in the source: transcription of the
\* audio failed)
TranscribeFailedLabel == "audio transcription failed: "

\* YouTubeAudioHelper.transcribeAudio, lines 508-531
HelperTranscribeAudio ==
  /\ pc = "hta_begin"
  /\ IF audioFilePath \in DOMAIN files
     THEN Goto("wta_begin") /\ UNCHANGED ret
     ELSE Goto("hta_done") /\ ret' = Err(<<"Audio file not found: ">>)
  /\ UNCHANGED <<envV, orchV, subV, cache, audioV, fsV, whisperV, histV>>

\* YouTubeAudioHelper.transcribeAudio, lines 533-539
HelperTranscribeAudioEnd ==
  /\ pc = "hta_done"
  /\ ret' = IF ret.ok THEN ret ELSE Err(Wrap(TranscribeFailedLabel, ret.val))
  /\ Goto("pya_finally")
  /\ outputPath' = Null /\ splitFilePath' = Null
  /\ uploaded' = {}
  /\ UNCHANGED <<envV, orchV, subV, cache, audioV, fsV, target, stratIdx, lastError,
                 directCtx, sdkV, chunkV, entered, called>>

\* processYouTubeAudio, lines 601-606: the finally block
ProcessYouTubeAudioFinally ==
  /\ pc = "pya_finally"
  /\ files' = IF audioFilePath # Null THEN cleanupTempFile(files, audioFilePath) ELSE files
  /\ audioFilePath' = Null
  /\ Goto("audio_done")
  /\ UNCHANGED <<envV, ret, orchV, subV, cache, dlStep, description, clock, whisperV, histV>>

\* ----------------------------------------- WhisperService: transcribeAudio
\* the notes appended to a partial transcription (Japanese in the source)
PartialNote == "[note: only the first 20 minutes were transcribed]"
\* line 1845: the note names the number of chunks
ChunkNote(n) == <<"[note: processed in ", ToString(n), " chunks]">>

\* line 1676: `${transcription}\n\n[note]`
WithPartialNoteMut(text) == text
WithPartialNote(text) == text \o <<"\n", "\n", PartialNote>>

TooLargeAfterSplitMsg == <<"Audio file too large even after splitting">>
SplitFailedMsg == <<"Failed to split audio file">>
SplitThenFailedLabel == "split to about 20MB, speech recognition failed: "

\* the catch of lines 1678-1692
MapSplitError(msg) ==
  IF Includes(msg, "Audio file too large even after splitting") THEN msg
  ELSE IF Includes(msg, "Failed to split audio file") THEN <<"Audio file too large: ">>
  ELSE Wrap(SplitThenFailedLabel, msg)

\* transcribeAudioFile starts on path: the loop over strategies begins
StartStrategiesMut(path) ==
  /\ target' = path /\ stratIdx' = 2 /\ lastError' = Null
  /\ Goto("taf_begin")
StartStrategies(path) ==
  /\ target' = path /\ stratIdx' = 1 /\ lastError' = Null
  /\ Goto("taf_begin")

\* lines 1644-1663 and 1695, and splitAudioFile lines 1525-1531
WhisperTranscribeAudio ==
  /\ pc = "wta_begin"
  /\ IF ~openaiKey
     THEN /\ ret' = Err(<<"OpenAI API key not configured for Whisper service">>)
          /\ Goto("hta_done")
          /\ UNCHANGED <<clock, outputPath, target, stratIdx, lastError, called>>
     ELSE IF audioFilePath \notin DOMAIN files
     THEN /\ ret' = Err(<<"Audio file not found">>)
          /\ Goto("hta_done")
          /\ UNCHANGED <<clock, outputPath, target, stratIdx, lastError, called>>
     ELSE IF OverMB(files[audioFilePath], SizeLimitMB)
     THEN /\ \E timestamp \in clock..MaxClock :
               /\ clock' = timestamp
               /\ outputPath' = SplitPath(timestamp, audioFilePath)
          /\ called' = called \cup {"ffmpeg"}
          /\ Goto("split_ffcheck")
          /\ UNCHANGED <<ret, target, stratIdx, lastError>>
     ELSE /\ StartStrategies(audioFilePath)
          /\ UNCHANGED <<ret, clock, outputPath, called>>
  /\ UNCHANGED <<envV, orchV, subV, cache, audioV, files, splitFilePath,
                 directCtx, sdkV, chunkV, entered, uploaded>>

\* checkFFmpegAvailability, lines 1549-1560: exec without a timeout
SplitFFmpegCheckReply ==
  /\ pc = "split_ffcheck"
  /\ ~hung
  /\ Goto(IF ffmpeg THEN "split_ffmpeg" ELSE "split_bytes")
  /\ UNCHANGED <<envV, ret, orchV, subV, cache, audioV, fsV, whisperV, histV>>

\* what ffmpeg leaves at its output path: nothing, or a file no larger than
\* its input
FFmpegWrites(inputSize) == {sz \in FileSizes : sz <= inputSize}

\* splitWithFFmpeg, lines 1569-1587 (exec without a timeout), and the catch
\* of splitAudioFile, lines 1539-1542
SplitFFmpegReply ==
  /\ pc = "split_ffmpeg"
  /\ ~hung
  /\ \E failed \in BOOLEAN, wrote \in BOOLEAN :
     \E sz \in FFmpegWrites(files[audioFilePath]) :
       /\ failed \/ wrote
       /\ failed => sz = 0
       /\ files' = IF wrote THEN Put(files, outputPath, sz) ELSE files
       /\ ret' = IF failed THEN Err(SplitFailedMsg) ELSE Ok(outputPath)
  /\ Goto("split_done")
  /\ UNCHANGED <<envV, orchV, subV, cache, audioV, clock, whisperV, histV>>

\* 1.5 minutes per megabyte, as a fraction
MinutesPerMBNum == 3
MinutesPerMBDen == 2

\* Math.floor(size * minutes / Math.max(30, sizeMB * 1.5)), in kilobytes
RatioKB(sizeKB, minutes) ==
  IF sizeKB * MinutesPerMBNum > MinTotalMinutes * MinutesPerMBDen * KB
  THEN (minutes * MinutesPerMBDen * KB) \div MinutesPerMBNum
  ELSE (sizeKB * minutes) \div MinTotalMinutes

\* splitWithByteApproximation: maxBytes, lines 1598-1608
ByteSplitSize(sizeKB, minutes) == Min(Min(RatioKB(sizeKB, minutes), ByteSplitCapMB * KB), sizeKB)

\* splitWithByteApproximation, lines 1596-1636: a copy inside the process; a
\* stream error leaves the file createWriteStream made
SplitBytesReply ==
  /\ pc = "split_bytes"
  /\ \E failed \in BOOLEAN :
       /\ files' = Put(files, outputPath,
                       IF failed THEN 0 ELSE ByteSplitSize(files[audioFilePath], PrefixMinutes))
       /\ ret' = IF failed THEN Err(SplitFailedMsg) ELSE Ok(outputPath)
  /\ Goto("split_done")
  /\ UNCHANGED <<envV, orchV, subV, cache, audioV, clock, whisperV, histV>>

\* transcribeAudio, lines 1663-1671 and the catch
SplitDone ==
  /\ pc = "split_done"
  /\ IF ~ret.ok
     THEN /\ ret' = Err(MapSplitError(ret.val))
          /\ Goto("hta_done")
          /\ UNCHANGED <<files, splitFilePath, target, stratIdx, lastError>>
     ELSE IF OverMB(files[ret.val], SizeLimitMB)
     THEN /\ files' = cleanupTempFile(files, ret.val)
          /\ ret' = Err(MapSplitError(TooLargeAfterSplitMsg))
          /\ splitFilePath' = ret.val
          /\ Goto("hta_done")
          /\ UNCHANGED <<target, stratIdx, lastError>>
     ELSE /\ splitFilePath' = ret.val
          /\ StartStrategies(ret.val)
          /\ ret' = NoRet
          /\ UNCHANGED files
  /\ UNCHANGED <<envV, orchV, subV, cache, audioV, clock, outputPath,
                 directCtx, sdkV, chunkV, histV>>

\* transcribeAudio after transcribeAudioFile: lines 1672-1676 and the catch
\* for a split file, line 1695 otherwise
TranscribeAudioFileDone ==
  /\ pc = "taf_done"
  /\ IF splitFilePath = Null
     THEN UNCHANGED <<ret, files>>
     ELSE IF ret.ok
     THEN /\ files' = cleanupTempFile(files, splitFilePath)
          /\ ret' = Ok(WithPartialNote(ret.val))
     ELSE /\ ret' = Err(MapSplitError(ret.val))
          /\ UNCHANGED files
  /\ target' = Null /\ stratIdx' = 0 /\ lastError' = Null
  /\ Goto("hta_done")
  /\ UNCHANGED <<envV, orchV, subV, cache, audioV, clock, outputPath,
                 splitFilePath, directCtx, sdkV, chunkV, histV>>

\* -------------------------------------- WhisperService: transcribeAudioFile
NumStrategies == 3          \* sdk, direct, chunk
ChunkDirectLimitMB == 20    \* fileSizeMB <= 20, line 1759
RetrySizeMB == 10           \* fileSizeMB > 10
MaxChunks == 5              \* maxChunks
ChunkMinutes == 10          \* chunkDurationMinutes
ChunkMinKB == 100           \* endByte - startByte < 1024 * 100

\* line 1759: if (fileSizeMB <= 20) the whole file goes to
\* transcribeAudioFileDirect and no chunk is cut
SmallEnoughForDirectMut(sizeKB) == FALSE
SmallEnoughForDirect(sizeKB) == ~OverMB(sizeKB, ChunkDirectLimitMB)

\* where transcribeAudioFileDirect returns to
DirectCont(ctx) == IF ctx = "chunk" THEN "chunk_tr_done" ELSE "strat_done"

\* transcribeAudioFileDirect up to its request, lines 229-286 and 345
StartDirect(path, ctx) ==
  /\ directCtx' = ctx
  /\ IF path \in DOMAIN files
     THEN /\ uploaded' = uploaded \cup {path}
          /\ called' = called \cup {"transcription"}
          /\ ret' = NoRet
          /\ Goto("direct_wait")
     ELSE /\ ret' = Err(<<"Audio file not found">>)
          /\ Goto(DirectCont(ctx))
          /\ UNCHANGED <<uploaded, called>>

\* the body of the loop of transcribeAudioFile, lines 1717-1728, with the
\* first lines of the strategy it calls (2009-2033, 1753-1770)
StrategyBegin ==
  /\ pc = "taf_begin"
  /\ IF stratIdx = 1
     THEN /\ attempt' = 0 /\ waits' = <<>>
          /\ uploaded' = uploaded \cup {target}
          /\ called' = called \cup {"transcription"}
          /\ ret' = NoRet
          /\ Goto("sdk_wait")
          /\ UNCHANGED <<directCtx, chunkV>>
     ELSE IF stratIdx = 2
     THEN /\ StartDirect(target, "strategy")
          /\ UNCHANGED <<sdkV, chunkV>>
     ELSE IF SmallEnoughForDirect(files[target])
     THEN /\ StartDirect(target, "single")
          /\ UNCHANGED <<sdkV, chunkV>>
     ELSE /\ chunkIndex' = 0 /\ tempChunkPaths' = <<>> /\ combined' = <<>>
          /\ ret' = NoRet
          /\ Goto("chunk_begin")
          /\ UNCHANGED <<chunkPath, directCtx, sdkV, uploaded, called>>
  /\ UNCHANGED <<envV, orchV, subV, cache, audioV, fsV, outputPath, splitFilePath,
                 target, stratIdx, lastError, entered>>

\* transcribeWithSDK, lines 2016-2017
MaxRetriesMut(sizeKB) == 1
MaxRetries(sizeKB) == IF OverMB(sizeKB, RetrySizeMB) THEN 2 ELSE 1
BaseWaitTimeMut(sizeKB) == 0
BaseWaitTime(sizeKB) == IF OverMB(sizeKB, RetrySizeMB) THEN 5000 ELSE 2000

\* the errors of the OpenAI client: the request timed out (its timeout is
\* 300000 ms, line 28), the connection failed, the request was refused
SdkTimeoutMsg == <<"Request timed out.">>
SdkErrors == {<<"Connection error.">>, <<"Incorrect API key provided">>}

\* isConnectionError, lines 2064-2069: the lower-cased message includes
\* 'connection', 'network' or 'timeout'
IsConnectionError(msg) == Includes(msg, "Connection error.")

\* the catch of transcribeWithSDK, lines 2043-2147
SDKFailed(msg) ==
  IF attempt < MaxRetries(files[target]) /\ IsConnectionError(msg)
  THEN attempt' = attempt + 1 /\ ret' = NoRet /\ Goto("sdk_backoff")
  ELSE IF IsConnectionError(msg)
  THEN attempt' = attempt /\ ret' = Err(msg) /\ Goto("sdk_diag")
  ELSE /\ attempt' = attempt
       /\ ret' = Err(Wrap("Failed to transcribe audio: ", msg))
       /\ Goto("strat_done")

\* client.audio.transcriptions.create answers, lines 2027-2033
SDKReply ==
  /\ pc = "sdk_wait"
  /\ \/ /\ ~hung
        /\ \E t \in Texts : ret' = Ok(t)
        /\ Goto("sdk_track")
        /\ UNCHANGED attempt
     \/ \E e \in (IF hung THEN {SdkTimeoutMsg} ELSE SdkErrors) : SDKFailed(e)
  /\ UNCHANGED <<envV, orchV, subV, cache, audioV, fsV, outputPath, splitFilePath,
                 target, stratIdx, lastError, directCtx, waits, chunkV, histV>>

\* apiUsageTracker.trackOpenAIUsage answers, lines 2036-2042: its rejection
\* is thrown inside the try
SDKTrackReply ==
  /\ pc = "sdk_track"
  /\ \E tracked \in BOOLEAN :
       IF tracked
       THEN Goto("strat_done") /\ UNCHANGED <<ret, attempt>>
       ELSE SDKFailed(<<"usage tracking failed">>)
  /\ UNCHANGED <<envV, orchV, subV, cache, audioV, fsV, outputPath, splitFilePath,
                 target, stratIdx, lastError, directCtx, waits, chunkV, histV>>

\* the wait before a retry has elapsed and the request is sent again,
\* lines 2021-2033
SDKBackoffElapsed ==
  /\ pc = "sdk_backoff"
  /\ waits' = Append(waits, BaseWaitTime(files[target]) * 2 ^ (attempt - 1))
  /\ Goto("sdk_wait")
  /\ UNCHANGED <<envV, ret, orchV, subV, cache, audioV, fsV, outputPath, splitFilePath,
                 target, stratIdx, lastError, directCtx, attempt, chunkV, histV>>

\* diagnoseWhisperAPIConnection answers, lines 2077-2113: what the try
\* throws is caught and rethrown by its own catch
SDKDiagReply ==
  /\ pc = "sdk_diag"
  /\ ret' = Err(Wrap("Connection error: ", ret.val))
  /\ Goto("strat_done")
  /\ UNCHANGED <<envV, orchV, subV, cache, audioV, fsV, whisperV, histV>>

DirectTimeoutMsg == <<"Direct HTTP request timeout after 5 minutes">>
DirectErrors == {<<"Direct HTTP API error: ">>}

\* the request of transcribeAudioFileDirect answers, lines 286-350: the
\* trimmed body, an error, or the timeout of 300000 ms
DirectReply ==
  /\ pc = "direct_wait"
  /\ \/ ~hung /\ \E t \in Texts : ret' = Ok(Trim(t))
     \/ \E e \in (IF hung THEN {DirectTimeoutMsg} ELSE DirectErrors) : ret' = Err(e)
  /\ Goto(DirectCont(directCtx))
  /\ UNCHANGED <<envV, orchV, subV, cache, audioV, fsV, whisperV, histV>>

\* the catch of the loop of transcribeAudioFile and its end, lines 1730-1744
StrategyDone ==
  /\ pc = "strat_done"
  /\ IF ret.ok
     THEN Goto("taf_done") /\ UNCHANGED <<ret, lastError>>
     ELSE /\ lastError' = ret.val
          /\ IF stratIdx < NumStrategies
             THEN Goto("strat_delay") /\ ret' = NoRet
             ELSE Goto("taf_done") /\ UNCHANGED ret
  /\ attempt' = 0 /\ waits' = <<>> /\ directCtx' = "none"
  /\ UNCHANGED <<envV, orchV, subV, cache, audioV, fsV, outputPath, splitFilePath,
                 target, stratIdx, chunkV, histV>>

\* the 2 seconds before the next strategy have elapsed, lines 1735-1738
StrategyDelayElapsed ==
  /\ pc = "strat_delay"
  /\ stratIdx' = stratIdx + 1
  /\ Goto("taf_begin")
  /\ UNCHANGED <<envV, ret, orchV, subV, cache, audioV, fsV, outputPath, splitFilePath,
                 target, lastError, directCtx, sdkV, chunkV, histV>>

\* --------------------------------- WhisperService: transcribeWithSmallChunks
\* the sizes in kilobytes of a chunk ffmpeg wrote: under 0.01 MB, under
\* 0.1 MB, and a usable one
ChunkSizes == {5, 50, 5 * KB}

ChunkFailedLabel == "Audio chunk creation failed: "
FirstChunkFailedLabel == "Failed to process first audio chunk: "
SmallChunkFailedLabel == "Small chunk processing failed: "
NoChunkDataMsg == <<"No transcription data obtained from any chunks">>

\* the head of the loop, lines 1774-1783, and createAudioChunk up to its
\* first await, lines 1868-1874
ChunkBegin ==
  /\ pc = "chunk_begin"
  /\ IF chunkIndex < MaxChunks
     THEN /\ \E timestamp \in clock..MaxClock :
               /\ clock' = timestamp
               /\ chunkPath' = ChunkPath(chunkIndex * ChunkMinutes, timestamp, target)
          /\ called' = called \cup {"ffmpeg"}
          /\ Goto("chunk_ffcheck")
     ELSE /\ Goto("chunk_loop_end")
          /\ UNCHANGED <<clock, chunkPath, called>>
  /\ UNCHANGED <<envV, ret, orchV, subV, cache, audioV, files, outputPath,
                 splitFilePath, target, stratIdx, lastError, directCtx, sdkV,
                 chunkIndex, tempChunkPaths, combined, entered, uploaded>>

\* checkFFmpegAvailability inside createAudioChunk, line 1874
ChunkFFmpegCheckReply ==
  /\ pc = "chunk_ffcheck"
  /\ ~hung
  /\ Goto(IF ffmpeg THEN "chunk_ffmpeg" ELSE "chunk_bytes")
  /\ UNCHANGED <<envV, ret, orchV, subV, cache, audioV, fsV, whisperV, histV>>

\* createChunkWithFFmpeg, lines 1895-1933, and the catch of createAudioChunk:
\* exec has a timeout of 30000 ms; a failed or killed ffmpeg may leave what
\* it had written
ChunkFFmpegReply ==
  /\ pc = "chunk_ffmpeg"
  /\ \/ \E left \in BOOLEAN :
          /\ files' = IF left THEN Put(files, chunkPath, 0) ELSE files
          /\ ret' = Err(Wrap(ChunkFailedLabel, <<"FFmpeg chunk creation failed: ">>))
     \/ /\ ~hung
        /\ ret' = Ok(Null)
        /\ UNCHANGED files
     \/ /\ ~hung
        /\ \E sz \in ChunkSizes :
             IF UnderHundredthMB(sz)
             THEN files' = cleanupTempFile(Put(files, chunkPath, sz), chunkPath)
                  /\ ret' = Ok(Null)
             ELSE files' = Put(files, chunkPath, sz) /\ ret' = Ok(chunkPath)
  /\ Goto("chunk_created")
  /\ UNCHANGED <<envV, orchV, subV, cache, audioV, clock, whisperV, histV>>

\* createChunkWithByteApproximation, lines 1943-2001
ChunkBytesReply ==
  /\ pc = "chunk_bytes"
  /\ LET size == files[target]
         startByte == RatioKB(size, chunkIndex * ChunkMinutes)
         chunkSize == RatioKB(size, ChunkMinutes)
         endByte == Min(startByte + chunkSize, size)
     IN IF startByte >= size \/ endByte - startByte < ChunkMinKB
        THEN ret' = Ok(Null) /\ UNCHANGED files
        ELSE \E failed \in BOOLEAN :
                  IF failed
                  THEN /\ files' = Put(files, chunkPath, 0)
                       /\ ret' = Err(Wrap(ChunkFailedLabel, <<"Byte approximation write failed: ">>))
                  ELSE /\ files' = Put(files, chunkPath, endByte - startByte)
                       /\ ret' = Ok(chunkPath)
  /\ Goto("chunk_created")
  /\ UNCHANGED <<envV, orchV, subV, cache, audioV, clock, whisperV, histV>>

\* the catch inside the loop, lines 1821-1832: the first chunk's error is
\* thrown on, a later one ends the loop
ChunkError(msg) ==
  /\ ret' = IF chunkIndex = 0 THEN Err(Wrap(FirstChunkFailedLabel, msg)) ELSE NoRet
  /\ Goto("chunk_loop_end")

\* createAudioChunk has returned, lines 1785-1803
ChunkCreated ==
  /\ pc = "chunk_created"
  /\ IF ~ret.ok
     THEN ChunkError(ret.val)
          /\ UNCHANGED <<files, tempChunkPaths, directCtx, uploaded, called>>
     ELSE IF ret.val = Null
     THEN Goto("chunk_loop_end") /\ ret' = NoRet
          /\ UNCHANGED <<files, tempChunkPaths, directCtx, uploaded, called>>
     ELSE IF UnderTenthMB(files[ret.val])
     THEN /\ files' = cleanupTempFile(files, ret.val)
          /\ Goto("chunk_loop_end") /\ ret' = NoRet
          /\ UNCHANGED <<tempChunkPaths, directCtx, uploaded, called>>
     ELSE /\ tempChunkPaths' = Append(tempChunkPaths, ret.val)
          /\ StartDirect(ret.val, "chunk")
          /\ UNCHANGED files
  /\ UNCHANGED <<envV, orchV, subV, cache, audioV, clock, outputPath,
                 splitFilePath, target, stratIdx, lastError, sdkV, chunkIndex,
                 chunkPath, combined, entered>>

PartLabel(n) == <<"[Part ", ToString(n), "]", "\n">>

\* lines 1806-1809
AppendPartMut(sofar, n, text) == sofar \o Trim(text)
AppendPart(sofar, n, text) ==
  (IF Len(sofar) > 0 THEN sofar \o <<"\n", "\n">> ELSE sofar) \o PartLabel(n) \o Trim(text)

\* the chunk's transcription has returned, lines 1805-1819
ChunkTranscribed ==
  /\ pc = "chunk_tr_done"
  /\ IF ~ret.ok
     THEN ChunkError(ret.val) /\ UNCHANGED <<combined, chunkIndex>>
     ELSE /\ combined' = IF Truthy(ret.val) /\ NonBlank(ret.val)
                         THEN AppendPart(combined, chunkIndex + 1, ret.val)
                         ELSE combined
          /\ ret' = NoRet
          /\ IF chunkIndex < MaxChunks - 1
             THEN Goto("chunk_delay") /\ UNCHANGED chunkIndex
             ELSE Goto("chunk_begin") /\ chunkIndex' = chunkIndex + 1
  /\ directCtx' = "none"
  /\ UNCHANGED <<envV, orchV, subV, cache, audioV, fsV, outputPath, splitFilePath,
                 target, stratIdx, lastError, sdkV, chunkPath, tempChunkPaths, histV>>

\* the 3 seconds between chunks have elapsed, lines 1816-1819
ChunkDelayElapsed ==
  /\ pc = "chunk_delay"
  /\ chunkIndex' = chunkIndex + 1
  /\ Goto("chunk_begin")
  /\ UNCHANGED <<envV, ret, orchV, subV, cache, audioV, fsV, outputPath, splitFilePath,
                 target, stratIdx, lastError, directCtx, sdkV, chunkPath,
                 tempChunkPaths, combined, histV>>

RECURSIVE CleanupAll(_, _)
\* tempChunkPaths.forEach(cleanupTempFile)
CleanupAll(f, paths) ==
  IF paths = <<>> THEN f ELSE CleanupAll(cleanupTempFile(f, Head(paths)), Tail(paths))

\* after the loop, lines 1835-1858: the result or the throw, the outer catch
\* and the finally block
ChunkLoopEnd ==
  /\ pc = "chunk_loop_end"
  /\ ret' = IF ~ret.ok THEN Err(Wrap(SmallChunkFailedLabel, ret.val))
            ELSE IF Len(Trim(combined)) = 0 THEN Err(Wrap(SmallChunkFailedLabel, NoChunkDataMsg))
            ELSE Ok(combined \o <<"\n", "\n">> \o ChunkNote(Len(tempChunkPaths)))
  /\ files' = CleanupAll(files, tempChunkPaths)
  /\ chunkIndex' = 0 /\ chunkPath' = Null /\ tempChunkPaths' = <<>> /\ combined' = <<>>
  /\ Goto("strat_done")
  /\ UNCHANGED <<envV, orchV, subV, cache, audioV, clock, outputPath,
                 splitFilePath, target, stratIdx, lastError, directCtx, sdkV, histV>>

\* ------------------------------------------- getYouTubeContent, stage two
\* message literals of youtube-helper.js (Japanese in the source)
AudioFailedLabel == "audio transcription stage failed: "
NoAudioTextMsg == <<"no transcription could be obtained from the audio">>
DescFailedLabel == "fetching the description failed: "
DescTooShortMsg == <<"the description is too short or missing">>
NoContentMsg == <<"no content could be obtained from subtitles, description or audio">>

\* getYouTubeAudioTranscription after processYouTubeAudio, lines 389-400
AudioResultMut(r) == Err(Wrap(AudioFailedLabel, NoAudioTextMsg))
AudioResult(r) ==
  IF ~r.ok THEN Err(Wrap(AudioFailedLabel, r.val))
  ELSE IF ~Truthy(r.val) \/ Len(Trim(r.val)) = 0
  THEN Err(Wrap(AudioFailedLabel, NoAudioTextMsg))
  ELSE r

\* getYouTubeContent, lines 347-352
AudioStageDone ==
  /\ pc = "audio_done"
  /\ LET r == AudioResult(ret) IN
     IF r.ok
     THEN /\ content' = r.val
          /\ method' = <<"audio">>
          /\ methods' = Append(methods, Entry("audio", TRUE, Null))
          /\ Goto("finish")
     ELSE /\ methods' = Append(methods, Entry("audio", FALSE, r.val))
          /\ Goto("desc_begin")
          /\ UNCHANGED <<content, method>>
  /\ ret' = NoRet
  /\ UNCHANGED <<envV, result, thrown, subV, cache, audioV, fsV, whisperV, histV>>

\* ------------------------------------------------------ getYouTubeDescription
\* the descriptions a video may have
Descriptions == {<<>>, <<" ">>, <<"a">>, Rep("a", DescMinLen + 1)}

\* generateSummaryText, lines 2404-2434
ApiSummary(d) ==
  <<"title: ", "\n", "\n", "channel: ", "\n", "\n", "description: ">>
    \o Take(d, DescSummaryLimit)

\* line 314
YtdlSummary(d) ==
  <<"title: ", "\n", "\n", "channel: ", "\n", "\n", "description: ">> \o d

\* hasDescription, line 2516
HasDescription(d) == Truthy(d) /\ Len(Trim(d)) > 0

\* line 313
LongEnoughMut(d) == Truthy(d) /\ Len(Trim(d)) > DescMinLen + 1
LongEnough(d) == Truthy(d) /\ Len(Trim(d)) > DescMinLen

\* lines 354-356 and 289-295, 2501-2507: with YOUTUBE_API_KEY the Data API is
\* asked first, for the id extractVideoId of youtube-helper.js finds
DescriptionBegin ==
  /\ pc = "desc_begin"
  /\ entered' = Append(entered, "description")
  /\ called' = called \cup {"description"}
  /\ \E youtubeApiKey \in BOOLEAN :
       Goto(IF youtubeApiKey /\ extractVideoId(url) # Null THEN "desc_api" ELSE "desc_ytdl")
  /\ UNCHANGED <<envV, ret, orchV, subV, cache, audioV, fsV, whisperV, uploaded>>

\* youtube.videos.list answers, lines 2349-2396 and 296-302; no timeout
DescApiReply ==
  /\ pc = "desc_api"
  /\ ~hung
  /\ \/ Goto("desc_ytdl") /\ UNCHANGED <<ret, description>>
     \/ \E d \in Descriptions :
          /\ description' = d
          /\ IF HasDescription(d)
             THEN ret' = Ok(ApiSummary(d)) /\ Goto("desc_done")
             ELSE UNCHANGED ret /\ Goto("desc_ytdl")
  /\ UNCHANGED <<envV, orchV, subV, cache, dlStep, audioFilePath, fsV, whisperV, histV>>

\* ytdl.getBasicInfo answers, lines 306-323; no timeout; it finds no video
\* for a url that is not a YouTube url
DescYtdlReply ==
  /\ pc = "desc_ytdl"
  /\ ~hung
  /\ \/ /\ ret' = Err(Wrap(DescFailedLabel, <<"Not a YouTube domain">>))
        /\ description' = Null
     \/ /\ url.form \notin {"other", "null"}
        /\ \E d \in Descriptions :
             /\ description' = d
             /\ ret' = IF LongEnough(d) THEN Ok(YtdlSummary(d))
                       ELSE Err(Wrap(DescFailedLabel, DescTooShortMsg))
  /\ Goto("desc_done")
  /\ UNCHANGED <<envV, orchV, subV, cache, dlStep, audioFilePath, fsV, whisperV, histV>>

\* getYouTubeContent, lines 356-361
DescriptionStageDone ==
  /\ pc = "desc_done"
  /\ IF ret.ok
     THEN /\ content' = ret.val
          /\ method' = <<"description">>
          /\ methods' = Append(methods, Entry("description", TRUE, Null))
     ELSE /\ methods' = Append(methods, Entry("description", FALSE, ret.val))
          /\ UNCHANGED <<content, method>>
  /\ ret' = NoRet
  /\ description' = Null
  /\ Goto("finish")
  /\ UNCHANGED <<envV, result, thrown, subV, cache, dlStep, audioFilePath, fsV, whisperV, histV>>

\* line 365: if (!content) throw
HasContentMut(c) == TRUE
HasContent(c) == Truthy(c)

\* getYouTubeContent, lines 365-374
Finish ==
  /\ pc = "finish"
  /\ IF HasContent(content)
     THEN /\ result' = [content |-> content, method |-> method, methods |-> methods,
                        length |-> IF content = Null THEN 0 ELSE Len(content)]
          /\ Goto("returned")
          /\ UNCHANGED thrown
     ELSE /\ thrown' = [message |-> NoContentMsg]
          /\ Goto("thrown")
          /\ UNCHANGED result
  /\ UNCHANGED <<envV, ret, content, method, methods, subV, cache, audioV, fsV,
                 whisperV, histV>>

\* ------------------------------------------------------------- environment
\* the awaits on something outside the process
ExternalWaits ==
  {"sub_fetch", "dl_wait", "split_ffcheck", "split_ffmpeg", "sdk_wait", "direct_wait",
   "chunk_ffcheck", "chunk_ffmpeg", "desc_api", "desc_ytdl"}

\* the tool or service the run is waiting for stops responding for good
Hang ==
  /\ pc \in ExternalWaits
  /\ ~hung
  /\ hung' = TRUE
  /\ UNCHANGED <<envV, pc, ret, orchV, subV, cache, audioV, fsV, whisperV, histV>>

Done == pc \in {"returned", "thrown"}

Next ==
  \/ TranscriptBegin \/ CacheLookupReply \/ SubtitleReply \/ CacheWriteReply
  \/ TranscriptStageDone
  \/ AudioStageBegin \/ DownloadTry \/ DownloadReply \/ DownloadDone
  \/ HelperTranscribeAudio \/ WhisperTranscribeAudio
  \/ SplitFFmpegCheckReply \/ SplitFFmpegReply \/ SplitBytesReply \/ SplitDone
  \/ StrategyBegin \/ SDKReply \/ SDKTrackReply \/ SDKBackoffElapsed \/ SDKDiagReply
  \/ DirectReply \/ StrategyDone \/ StrategyDelayElapsed
  \/ ChunkBegin \/ ChunkFFmpegCheckReply \/ ChunkFFmpegReply \/ ChunkBytesReply
  \/ ChunkCreated \/ ChunkTranscribed \/ ChunkDelayElapsed \/ ChunkLoopEnd
  \/ TranscribeAudioFileDone \/ HelperTranscribeAudioEnd \/ ProcessYouTubeAudioFinally
  \/ AudioStageDone
  \/ DescriptionBegin \/ DescApiReply \/ DescYtdlReply \/ DescriptionStageDone
  \/ Finish
  \/ Hang

Spec == Init /\ [][Next]_vars

\* ------------------------------------------ two runs, one temp directory
\* The summarize route starts processSummaryRequest without awaiting it, so
\* the runs of two requests interleave at their awaits.  This model keeps,
\* of each run, the file names it builds and the files it writes and
\* removes; `files` and `clock` are the shared directory and Date.now().
NumRuns == 2
Runs == 1..NumRuns

\* the urls of the two requests: one video twice, or two videos
ConcUrls == {Url("watch", V1), Url("youtu.be", Rep("x", 3))}

NewRun(u) ==
  [url |-> u, pc |-> "c_download", strategy |-> 1,
   audio |-> Null, split |-> Null, chunk |-> Null]

ConcInit ==
  /\ url = NullUrl /\ openaiKey = TRUE /\ ffmpeg = TRUE /\ cache = <<>>
  /\ runs \in [Runs -> {NewRun(u) : u \in ConcUrls}]
  /\ Idle

\* the variables of the one-run model
oneRunV == <<url, openaiKey, ffmpeg, appV, pc, hung, ret, orchV, subV, cache, audioV,
             whisperV, histV>>

\* the temp paths run r holds
RunPaths(r) == {runs[r].audio, runs[r].split, runs[r].chunk} \ {Null}

\* a download strategy of run r ends: it wrote `${videoId}.mp4` or
\* `${videoId}.mp3`, or it failed and the next one is tried
\* (downloadAudioWithFallback, lines 418-453; the paths of lines 233, 298,
\* 367, 468)
ConcDownload(r) ==
  /\ runs[r].pc = "c_download"
  /\ LET k == runs[r].strategy
         path == AudioPath(k, HelperExtractVideoId(runs[r].url))
     IN \/ \E sz \in FileSizes :
             /\ files' = Put(files, path, sz)
             /\ runs' = [runs EXCEPT ![r].audio = path, ![r].pc = "c_audio"]
        \/ /\ runs' = [runs EXCEPT ![r].strategy = IF k < NumDownloadStrategies THEN k + 1 ELSE k,
                                   ![r].pc = IF k < NumDownloadStrategies THEN "c_download" ELSE "c_done"]
           /\ UNCHANGED files
  /\ UNCHANGED <<oneRunV, clock>>

\* run r splits its oversize download (transcribeAudio line 1659,
\* splitAudioFile lines 1525-1538)
ConcSplit(r) ==
  /\ runs[r].pc = "c_audio"
  /\ runs[r].audio \in DOMAIN files
  /\ OverMB(files[runs[r].audio], SizeLimitMB)
  /\ \E timestamp \in clock..MaxClock :
       LET path == SplitPath(timestamp, runs[r].audio) IN
       /\ clock' = timestamp
       /\ \E sz \in {ByteSplitSize(files[runs[r].audio], PrefixMinutes), 22 * KB} :
            files' = Put(files, path, sz)
       /\ runs' = [runs EXCEPT ![r].split = path, ![r].pc = "c_split"]
  /\ UNCHANGED oneRunV

\* the file run r transcribes
ConcTarget(r) == IF runs[r].pc = "c_split" THEN runs[r].split ELSE runs[r].audio

\* run r cuts the first chunk of a file over 20 MB (transcribeWithSmallChunks
\* lines 1759-1783, createAudioChunk lines 1868-1880)
ConcChunk(r) ==
  /\ runs[r].pc \in {"c_audio", "c_split"}
  /\ ConcTarget(r) \in DOMAIN files
  /\ OverMB(files[ConcTarget(r)], ChunkDirectLimitMB)
  /\ ~OverMB(files[ConcTarget(r)], SizeLimitMB)
  /\ \E timestamp \in clock..MaxClock :
       LET path == ChunkPath(0, timestamp, ConcTarget(r)) IN
       /\ clock' = timestamp
       /\ files' = Put(files, path, RatioKB(files[ConcTarget(r)], ChunkMinutes))
       /\ runs' = [runs EXCEPT ![r].chunk = path, ![r].pc = "c_chunk"]
  /\ UNCHANGED oneRunV

\* run r ends: the finally blocks remove its files (lines 1852-1858, 1673,
\* 601-606 of processYouTubeAudio)
ConcFinally(r) ==
  /\ runs[r].pc \in {"c_audio", "c_split", "c_chunk"}
  /\ files' = [p \in DOMAIN files \ RunPaths(r) |-> files[p]]
  /\ runs' = [runs EXCEPT ![r].pc = "c_done", ![r].audio = Null,
                          ![r].split = Null, ![r].chunk = Null]
  /\ UNCHANGED <<oneRunV, clock>>

ConcNext ==
  \E r \in Runs : ConcDownload(r) \/ ConcSplit(r) \/ ConcChunk(r) \/ ConcFinally(r)

ConcSpec == ConcInit /\ [][ConcNext]_vars

\* ------------------------------------------------------------------ claims
StageOrder == <<"transcript", "audio", "description">>

\* C1: the stages are entered in the order subtitles, audio, description;
\* the audio stage is entered only after the subtitle stage has failed, the
\* description stage only after the audio stage has failed, and no stage is
\* entered after one has succeeded.
C1_StageOrder ==
  /\ Len(entered) <= Len(StageOrder)
  /\ entered = SubSeq(StageOrder, 1, Len(entered))
  /\ \A i \in 2..Len(entered) :
       /\ Len(methods) >= i - 1
       /\ methods[i - 1].method = StageOrder[i - 1]
       /\ ~methods[i - 1].success
  /\ \A i \in 1..Len(methods) : methods[i].success => Len(entered) = i

\* a run went through all three stages and the last one produced the result
C1_Witness ==
  /\ pc = "returned"
  /\ entered = StageOrder
  /\ Len(methods) = Len(StageOrder)
  /\ methods[Len(StageOrder)].success

\* C2: a run ends in exactly one of two ways: a result whose content is not
\* empty and whose method names the stage that produced it, or an error;
\* never a result with empty content, without a method, or with the method
\* of another stage.
C2_OneOutcome ==
  /\ ~Done => result = NoResult /\ thrown = NoError
  /\ pc = "thrown" => result = NoResult /\ thrown # NoError
  /\ pc = "returned" =>
       /\ thrown = NoError
       /\ Truthy(result.content)
       /\ result.length = Len(result.content)
       /\ result.method = <<entered[Len(entered)]>>
       /\ methods[Len(methods)] = Entry(entered[Len(entered)], TRUE, Null)

\* a run returned what the audio stage transcribed
C2_Witness ==
  /\ pc = "returned"
  /\ result.method = <<"audio">>
  /\ Truthy(result.content)

\* C3: when processYouTubeAudio has returned or thrown, no temporary audio
\* file the call created is left in the temp directory (the directory was
\* empty when the run began).
C3_NoTempFileLeft == pc = "audio_done" => DOMAIN files = {}

\* C4: two concurrent runs in one temp directory never hold the same
\* temporary path, be it a download, a prefix or a chunk.
C4_DistinctPaths ==
  \A r1 \in DOMAIN runs, r2 \in DOMAIN runs :
    r1 # r2 => RunPaths(r1) \cap RunPaths(r2) = {}

\* the attempt records the error a run threw carries
SurfacedTrace == IF "methods" \in DOMAIN thrown THEN thrown.methods ELSE <<>>

\* C5: when every strategy has failed, the failure surfaced to the caller
\* carries the trace: one attempt record, with its error, per strategy that
\* was attempted.
C5_TraceSurfaced ==
  pc = "thrown" =>
    /\ Len(SurfacedTrace) = Len(methods)
    /\ Len(SurfacedTrace) >= Len(entered)

\* what a run that has not ended can do by itself or on an answer or a
\* timeout: every step but the environment's Hang
Progress ==
  \/ TranscriptBegin \/ CacheLookupReply \/ SubtitleReply \/ CacheWriteReply
  \/ TranscriptStageDone
  \/ AudioStageBegin \/ DownloadTry \/ DownloadReply \/ DownloadDone
  \/ HelperTranscribeAudio \/ WhisperTranscribeAudio
  \/ SplitFFmpegCheckReply \/ SplitFFmpegReply \/ SplitBytesReply \/ SplitDone
  \/ StrategyBegin \/ SDKReply \/ SDKTrackReply \/ SDKBackoffElapsed \/ SDKDiagReply
  \/ DirectReply \/ StrategyDone \/ StrategyDelayElapsed
  \/ ChunkBegin \/ ChunkFFmpegCheckReply \/ ChunkFFmpegReply \/ ChunkBytesReply
  \/ ChunkCreated \/ ChunkTranscribed \/ ChunkDelayElapsed \/ ChunkLoopEnd
  \/ TranscribeAudioFileDone \/ HelperTranscribeAudioEnd \/ ProcessYouTubeAudioFinally
  \/ AudioStageDone
  \/ DescriptionBegin \/ DescApiReply \/ DescYtdlReply \/ DescriptionStageDone
  \/ Finish

\* C6: every run terminates even when an external tool never responds: each
\* external call is bounded by a timeout, so a run that has not ended always
\* has a next step (every step moves the run forward, so a run that always
\* has a next step ends).
C6_NeverStuck == ~Done => ENABLED Progress

\* C7 as stated: when the subtitle stage has failed and the download and the
\* transcription succeed with text T, the content is exactly T, the method is
\* audio and the description stage is not invoked.
C7_AudioTextReturned ==
  [][(pc = "audio_done" /\ ret.ok) =>
       (content' = ret.val /\ method' = <<"audio">> /\ pc' = "finish"
        /\ "description" \notin called')]_vars

\* C7, amended: the same for a text T that is not blank (not empty after
\* trimming).
C7_NonBlankAudioTextReturned ==
  [][(pc = "audio_done" /\ ret.ok /\ NonBlank(ret.val)) =>
       (content' = ret.val /\ method' = <<"audio">> /\ pc' = "finish"
        /\ "description" \notin called')]_vars

\* the audio stage produced the content and no description was asked for
C7_Witness ==
  /\ pc = "finish"
  /\ method = <<"audio">>
  /\ NonBlank(content)
  /\ entered = <<"transcript", "audio">>
  /\ "description" \notin called

\* C8 as stated: when the subtitle and the audio stage have failed and the
\* description has a length above 0, the run succeeds with method
\* description.
C8_AnyDescriptionSucceeds ==
  [][(pc = "desc_done" /\ description # Null /\ Len(description) > 0) =>
       (method' = <<"description">> /\ Truthy(content'))]_vars

\* C8, amended: the same for a description that has more than 50 characters
\* after trimming.
C8_LongDescriptionSucceeds ==
  [][(pc = "desc_done" /\ description # Null /\ Len(Trim(description)) > DescMinLen) =>
       (method' = <<"description">> /\ Truthy(content'))]_vars

\* ytdl-core returned a description of 51 characters after both earlier
\* stages failed
C8_Witness ==
  /\ pc = "desc_done"
  /\ description = Rep("a", DescMinLen + 1)
  /\ ret.ok
  /\ Len(methods) = 2

\* the url matches none of the patterns of normalizeYouTubeUrl
NoKnownPattern(u) == u # NullUrl /\ MatchedId(u) = Null

\* C9: a url that matches no known pattern ends the run at once with an
\* invalid-reference error; no subtitle, download, transcription or
\* description strategy is attempted.
C9_InvalidUrlEndsAtOnce ==
  NoKnownPattern(url) =>
    /\ called = {}
    /\ Len(entered) <= 1
    /\ pc # "returned"
    /\ pc = "thrown" => thrown.message = InvalidUrlMsg

\* transcribeAudio of WhisperService is in progress on a file above 25 MB
OversizeCall ==
  /\ pc \notin {"start", "sub_cache", "sub_fetch", "sub_cachewrite", "sub_done",
                "audio_begin", "dl_try", "dl_wait", "dl_done", "hta_begin"}
  /\ audioFilePath # Null
  /\ audioFilePath \in DOMAIN files
  /\ OverMB(files[audioFilePath], SizeLimitMB)

\* C10: for a file above 25 MB transcribeAudio sends to Whisper only the
\* prefix splitAudioFile made (or chunks cut from it), never the file itself,
\* and every text it returns carries the note that marks it partial.
C10_OversizeIsPartial ==
  OversizeCall =>
    /\ audioFilePath \notin uploaded
    /\ \A p \in uploaded : Head(p) \in {"split_", "chunk_"}
    /\ uploaded # {} => splitFilePath # Null /\ target \in {Null, splitFilePath}
    /\ (pc = "hta_done" /\ ret.ok) => Includes(ret.val, PartialNote)

\* an oversize file was split and the prefix transcribed
C10_Witness ==
  /\ OversizeCall
  /\ pc = "hta_done"
  /\ ret.ok
  /\ splitFilePath # Null
  /\ splitFilePath \in uploaded

\* where the run is while splitAudioFile makes the prefix file, and while
\* the chunk loop of transcribeWithSmallChunks runs
SplittingPcs == {"split_ffcheck", "split_ffmpeg", "split_bytes", "split_done"}
ChunkingPcs ==
  {"chunk_begin", "chunk_ffcheck", "chunk_ffmpeg", "chunk_bytes", "chunk_created",
   "chunk_tr_done", "chunk_delay", "chunk_loop_end"}

\* the prefix files and chunk files in the temp directory
IntermediateFiles == {p \in DOMAIN files : Head(p) \in {"split_", "chunk_"}}

\* transcribeAudio of WhisperService is in progress on a file of at most
\* limitMB megabytes
CallOnFileUpTo(limitMB) ==
  /\ pc \notin {"start", "sub_cache", "sub_fetch", "sub_cachewrite", "sub_done",
                "audio_begin", "dl_try", "dl_wait", "dl_done", "hta_begin"}
  /\ audioFilePath # Null
  /\ audioFilePath \in DOMAIN files
  /\ ~OverMB(files[audioFilePath], limitMB)

\* C11 as stated: for a file within the size limit of 25 MB a transcribeAudio
\* call never makes a prefix file or a chunk file, whatever the strategies do.
C11_NoChunkingUnderLimit ==
  CallOnFileUpTo(SizeLimitMB) =>
    /\ pc \notin SplittingPcs \cup ChunkingPcs
    /\ IntermediateFiles = {}

\* C11, amended: for a file of at most 20 MB no prefix file and no chunk file
\* is made; for a file of at most 25 MB no prefix file is made, and chunks are
\* cut only by the third strategy, after the SDK and the direct HTTP call
\* have failed.
C11_NoChunkingUpToDirectLimit ==
  /\ CallOnFileUpTo(ChunkDirectLimitMB) =>
       /\ pc \notin SplittingPcs \cup ChunkingPcs
       /\ IntermediateFiles = {}
  /\ CallOnFileUpTo(SizeLimitMB) =>
       /\ pc \notin SplittingPcs
       /\ \A p \in IntermediateFiles : Head(p) = "chunk_"
       /\ pc \in ChunkingPcs =>
            /\ stratIdx = NumStrategies
            /\ target = audioFilePath
            /\ OverMB(files[audioFilePath], ChunkDirectLimitMB)

\* the third strategy sends a file of at most 20 MB whole, after the first
\* two strategies have failed
C11_Witness ==
  /\ CallOnFileUpTo(ChunkDirectLimitMB)
  /\ pc = "direct_wait"
  /\ stratIdx = NumStrategies
  /\ directCtx = "single"
  /\ uploaded = {audioFilePath}

\* where the run is once processYouTubeAudio has returned or thrown
AfterAudioPcs ==
  {"audio_done", "desc_begin", "desc_api", "desc_ytdl", "desc_done", "finish",
   "returned", "thrown"}

\* the files in the temp directory that a download strategy wrote in full
DownloadedFiles ==
  {p \in DOMAIN files : Head(p) \notin {"split_", "chunk_"} /\ files[p] > 0}

FirstSubtitleRequest == "subtitle" \notin called /\ "subtitle" \in called'

\* getCachedTranscript found a row and getYouTubeTranscript returns its text
CacheHit ==
  /\ pc = "sub_cache" /\ pc' = "sub_done"
  /\ videoId \in DOMAIN cache
  /\ ret' = Ok(cache[videoId])
  /\ "subtitle" \notin called'

\* the cache with text stored under id (INSERT OR REPLACE)
Stored(c, id, text) == [k \in DOMAIN c \cup {id} |-> IF k = id THEN text ELSE c[k]]

\* C13 as stated: getYouTubeTranscript asks the cache before any subtitle
\* request; on a hit it returns the cached text without a subtitle request;
\* on a fresh success the text is in the cache under the video id when the
\* call returns.
C13_CacheFirstWriteThrough ==
  /\ [][FirstSubtitleRequest => (pc = "sub_cache")]_vars
  /\ [][(pc = "sub_cache" /\ pc' = "sub_done") => CacheHit]_vars
  /\ []((pc = "sub_done" /\ ret.ok) =>
          (videoId \in DOMAIN cache /\ cache[videoId] = ret.val))

\* C13, amended: for a url that is not null or empty the cache is asked
\* before any subtitle request; on a hit the cached text is returned without
\* a subtitle request; on a fresh success cacheTranscript is awaited before
\* the call returns, and it either stores the text under the video id or,
\* on a database error, leaves the cache as it was.
C13_CacheFirstWriteAttempted ==
  /\ [][FirstSubtitleRequest => (pc = "sub_cache" \/ url = NullUrl)]_vars
  /\ [][(pc = "sub_cache" /\ pc' = "sub_done") => CacheHit]_vars
  /\ [][(pc = "sub_fetch" /\ pc' = "sub_done") => (~ret'.ok)]_vars
  /\ [][(pc = "sub_cachewrite") =>
          (pc' = "sub_done" /\ ret' = ret /\ NonBlank(ret.val)
           /\ cache' \in {cache, Stored(cache, videoId, ret.val)})]_vars

\* a fresh subtitle text was returned and is in the cache under the video id
C13_Witness ==
  /\ pc = "sub_done"
  /\ ret.ok
  /\ "subtitle" \in called
  /\ videoId \in DOMAIN cache
  /\ cache[videoId] = ret.val

\* ------------------------------------------------ the video id of a url
\* normalizeYouTubeUrl, extractVideoId and YouTubeAudioHelper.extractVideoId
\* applied to one url, one after the other.
SupportedForms == {"watch", "youtu.be", "embed", "shorts", "watchq"}

\* what may follow the video id in a url: nothing, another query parameter,
\* a query string, a fragment
Suffixes == {<<>>, <<"&", "t">>, <<"?", "t">>, <<"#", "t">>}

\* the supported urls of the video `id`
VariantsOf(id) == {Url(f, id \o sfx) : f \in SupportedForms, sfx \in Suffixes}

\* the urls the three functions are applied to: the supported forms of two
\* videos, urls without a full id, urls of another site, and null
UrlInputs ==
  VariantsOf(V1) \cup VariantsOf(V2)
    \cup {Url(f, t) : f \in SupportedForms \cup {"other"}, t \in {Rep("x", 3), <<>>}}
    \cup {Url("other", V1), NullUrl}

UrlInit ==
  /\ url \in UrlInputs
  /\ openaiKey = TRUE /\ ffmpeg = TRUE /\ cache = <<>> /\ runs = <<>>
  /\ Idle

\* everything but url, pc, ret, normalizedUrl and videoId
notUrlV == <<openaiKey, ffmpeg, runs, appV, hung, orchV, subStep, errors, cache, audioV,
             fsV, whisperV, histV>>

\* normalizeYouTubeUrl(url), lines 9-34
UrlNormalize ==
  /\ pc = "start"
  /\ ret' = normalizeYouTubeUrl(url)
  /\ normalizedUrl' = IF normalizeYouTubeUrl(url).ok THEN normalizeYouTubeUrl(url).val ELSE NullUrl
  /\ pc' = "u_normalized"
  /\ UNCHANGED <<url, videoId, notUrlV>>

\* normalizeYouTubeUrl applied to what it returned
UrlNormalizeAgain ==
  /\ pc = "u_normalized"
  /\ ret' = normalizeYouTubeUrl(normalizedUrl)
  /\ pc' = "u_renormalized"
  /\ UNCHANGED <<url, normalizedUrl, videoId, notUrlV>>

\* extractVideoId(url) of youtube-helper.js, lines 41-49
UrlExtractVideoId ==
  /\ pc = "u_renormalized"
  /\ videoId' = extractVideoId(url)
  /\ ret' = Ok(extractVideoId(url))
  /\ pc' = "u_extracted"
  /\ UNCHANGED <<url, normalizedUrl, notUrlV>>

\* YouTubeAudioHelper.extractVideoId(url), lines 547-561: url.match throws a
\* TypeError for a null url
UrlHelperExtractVideoId ==
  /\ pc = "u_extracted"
  /\ ret' = IF url = NullUrl THEN Err(<<"TypeError">>) ELSE Ok(HelperExtractVideoId(url))
  /\ pc' = "u_helper"
  /\ UNCHANGED <<url, normalizedUrl, videoId, notUrlV>>

UrlNext ==
  \/ UrlNormalize \/ UrlNormalizeAgain \/ UrlExtractVideoId \/ UrlHelperExtractVideoId

UrlSpec == UrlInit /\ [][UrlNext]_vars

\* C14: for every supported form of the url of one video (watch?v=ID,
\* youtu.be/ID, embed/ID, shorts/ID, watch with other parameters before v=)
\* normalizeYouTubeUrl and the extractVideoId functions yield the same video
\* id, and normalizing a normalized url returns it unchanged.
C14_SameIdForEveryForm ==
  \A id \in {V1, V2} :
    url \in VariantsOf(id) =>
      /\ pc = "u_normalized" => ret = Ok(Url("watch", id))
      /\ pc = "u_renormalized" => ret = Ok(normalizedUrl)
      /\ pc = "u_extracted" => ret = Ok(id)
      /\ pc = "u_helper" => ret = Ok(id)

\* extractVideoId of youtube-helper.js found the id of a watch url with
\* another parameter before v=, YouTubeAudioHelper.extractVideoId found none
C14_Witness ==
  /\ pc = "u_helper"
  /\ url = Url("watchq", V1)
  /\ normalizedUrl = Url("watch", V1)
  /\ videoId = V1
  /\ ret = Ok(Null)

\* the awaits on a download or on a transcription request
InFlightPcs == {"dl_wait", "sdk_wait", "direct_wait"}

\* the call just left ended by the expiry of its own timeout
TimedOut ==
  /\ ~ret.ok
  /\ Includes(ret.val, "Request timed out.")
       \/ Includes(ret.val, "Direct HTTP request timeout after 5 minutes")

\* C15: a caller can cancel a run in progress: the in-flight download or
\* transcription call is interrupted (the run leaves the call although the
\* tool or service has not answered and before any timeout of the call
\* expires), and the cleanup of the files the run has made is executed.
C15_InFlightCallCancellable ==
  (pc \in InFlightPcs /\ hung) => ENABLED (Progress /\ ~TimedOut')

\* the transcription of a chunk is in flight, the service does not answer,
\* and the run holds a downloaded file and a chunk file
C15_Witness ==
  /\ pc = "direct_wait"
  /\ hung
  /\ directCtx = "chunk"
  /\ audioFilePath \in DOMAIN files
  /\ tempChunkPaths # <<>>

\* ------------------------------------------- concurrent runs, one cache
\* Two getYouTubeTranscript calls interleave at their awaits on the
\* database.  Here the table transcript_cache is kept row by row, as
\*   id INTEGER PRIMARY KEY AUTOINCREMENT, video_id TEXT UNIQUE NOT NULL,
\*   transcript_text TEXT NOT NULL
\* (unnamed/part_001, lines 290-296) declares it; `cache` holds the set of
\* rows, `runs` the calls, `called` the [video_id, transcript_text] pairs
\* cacheTranscript has been called with.
CacheRow(rowid, vid, text) == [id |-> rowid, video_id |-> vid, transcript_text |-> text]

\* the texts the subtitle service gave the runs
WriteTexts == {<<"a">>, <<"a", "a">>}

\* the next value of the AUTOINCREMENT column
NextRowId(rows) ==
  IF rows = {} THEN 1
  ELSE 1 + (CHOOSE n \in {r.id : r \in rows} : \A r \in rows : r.id <= n)

\* the texts the table holds for a video id
TextsOf(rows, vid) == {r.transcript_text : r \in {q \in rows : q.video_id = vid}}

\* INSERT OR REPLACE INTO transcript_cache (video_id, transcript_text, ...):
\* the rows in conflict on the UNIQUE column are deleted, then the row is
\* inserted
InsertOrReplaceMut(rows, vid, text) ==
  rows \cup {CacheRow(NextRowId(rows), vid, text)}
InsertOrReplace(rows, vid, text) ==
  {r \in rows : r.video_id # vid} \cup {CacheRow(NextRowId(rows), vid, text)}

\* a getYouTubeTranscript call for video vid whose subtitle request will
\* answer text
NewCacheRun(vid, text) ==
  [pc |-> "k_lookup", video_id |-> vid, text |-> text, wrote |-> FALSE, err |-> FALSE]

\* the table is empty when the runs begin
CacheInit ==
  /\ url = NullUrl /\ openaiKey = TRUE /\ ffmpeg = TRUE
  /\ cache = {}
  /\ runs \in [Runs -> {NewCacheRun(v, t) : v \in {V1, V2}, t \in WriteTexts}]
  /\ Idle

\* everything but cache, runs and called
notCacheV == <<url, openaiKey, ffmpeg, appV, pc, hung, ret, orchV, subV, audioV, fsV,
               whisperV, entered, uploaded>>

\* getCachedTranscript of run r answers (lines 67-73, 210-234): the text of
\* the row found is returned; no row, or a database error, and the subtitle
\* request is made
CacheRunLookup(r) ==
  /\ runs[r].pc = "k_lookup"
  /\ \E dbError \in BOOLEAN :
       LET found == IF dbError THEN {} ELSE TextsOf(cache, runs[r].video_id) IN
       IF found # {}
       THEN \E t \in found : runs' = [runs EXCEPT ![r].pc = "k_done", ![r].text = t]
       ELSE runs' = [runs EXCEPT ![r].pc = "k_fetch"]
  /\ UNCHANGED <<cache, called, notCacheV>>

\* fetchTranscript of run r answers with the run's text and cacheTranscript
\* is called (lines 75-86)
CacheRunFetched(r) ==
  /\ runs[r].pc = "k_fetch"
  /\ runs' = [runs EXCEPT ![r].pc = "k_write"]
  /\ called' = called \cup {[video_id |-> runs[r].video_id, transcript_text |-> runs[r].text]}
  /\ UNCHANGED <<cache, notCacheV>>

\* the statement of cacheTranscript of run r is executed (lines 241-258): a
\* database error is logged and the table is as before; then the text is
\* returned
CacheRunWrite(r) ==
  /\ runs[r].pc = "k_write"
  /\ \E dbError \in BOOLEAN :
       /\ cache' = IF dbError THEN cache
                   ELSE InsertOrReplace(cache, runs[r].video_id, runs[r].text)
       /\ runs' = [runs EXCEPT ![r].pc = "k_done", ![r].wrote = TRUE, ![r].err = dbError]
  /\ UNCHANGED <<called, notCacheV>>

CacheNext == \E r \in Runs : CacheRunLookup(r) \/ CacheRunFetched(r) \/ CacheRunWrite(r)

CacheSpec == CacheInit /\ [][CacheNext]_vars

\* run r has just stored its text
JustStored(r) ==
  /\ runs[r].pc = "k_write" /\ runs'[r].pc = "k_done" /\ ~runs'[r].err

\* C16: cache writes are idempotent and the last write wins: after any
\* interleaving of cacheTranscript calls of concurrent runs the table has at
\* most one row per video id, its text is the text of one of the calls, a
\* write that succeeded leaves exactly its text under its video id and every
\* other video id as it was, and a write of the text already stored leaves
\* the texts of the table unchanged.
C16_IdempotentLastWriteWins ==
  /\ [](\A r1 \in cache, r2 \in cache : r1.video_id = r2.video_id => r1 = r2)
  /\ [](\A row \in cache :
          [video_id |-> row.video_id, transcript_text |-> row.transcript_text] \in called)
  /\ [][\A r \in Runs : JustStored(r) =>
          /\ TextsOf(cache', runs[r].video_id) = {runs[r].text}
          /\ \A v \in {V1, V2} \ {runs[r].video_id} : TextsOf(cache', v) = TextsOf(cache, v)
          /\ TextsOf(cache, runs[r].video_id) = {runs[r].text} =>
               \A v \in {V1, V2} : TextsOf(cache', v) = TextsOf(cache, v)]_vars

\* both runs missed, both wrote the same video id with different texts, and
\* the table has one row
C16_Witness ==
  /\ \A r \in Runs : runs[r].pc = "k_done" /\ runs[r].wrote /\ ~runs[r].err
  /\ runs[1].video_id = runs[2].video_id
  /\ runs[1].text # runs[2].text
  /\ Cardinality(cache) = 1

\* C17: when transcribeAudio of WhisperService has returned or thrown, every
\* intermediate file the call made (the prefix file of splitAudioFile and the
\* chunk files of createAudioChunk) has been deleted, on every exit path.
C17_IntermediateFilesDeleted == pc = "hta_done" => IntermediateFiles = {}

\* the prefix of an oversize file was made, every strategy failed on it, and
\* the prefix is still there when transcribeAudio has thrown
C17_Witness ==
  /\ pc = "hta_done"
  /\ ~ret.ok
  /\ splitFilePath # Null
  /\ splitFilePath \in uploaded
  /\ splitFilePath \in DOMAIN files

\* C18: downloadAudioWithFallback tries ytdl-core, yt-dlp, pytube and
\* youtube-dl in this order: it starts with the first, goes from a strategy
\* only to the next one and only when the strategy has not returned a file,
\* never goes back to a strategy, returns the file of the first strategy
\* that succeeds, and throws only after the fourth has failed.
C18_DownloadOrder ==
  /\ [](pc \in {"dl_try", "dl_wait"} => dlStep \in 1..NumDownloadStrategies)
  /\ []((pc = "dl_done" /\ ret.ok) =>
          ret.val = AudioPath(dlStep, HelperExtractVideoId(url)))
  /\ []((pc = "dl_done" /\ ~ret.ok) => dlStep = NumDownloadStrategies)
  /\ [][(pc = "audio_begin") => (pc' = "dl_try" /\ dlStep' = 1)]_vars
  /\ [][(pc = "dl_try") =>
          \/ pc' = "dl_wait" /\ dlStep' = dlStep
          \/ pc' = "dl_try" /\ dlStep' = dlStep + 1
          \/ pc' = "dl_done" /\ dlStep' = dlStep /\ ~ret'.ok]_vars
  /\ [][(pc = "dl_wait") =>
          \/ pc' = "dl_wait" /\ dlStep' = dlStep
          \/ pc' = "dl_try" /\ dlStep' = dlStep + 1 /\ ret' = NoRet
          \/ pc' = "dl_done" /\ dlStep' = dlStep]_vars

\* youtube-dl, the fourth strategy, returned its file after the first three
\* had failed
C18_Witness ==
  /\ pc = "dl_done"
  /\ ret.ok
  /\ dlStep = NumDownloadStrategies
  /\ ret.val = AudioPath(NumDownloadStrategies, HelperExtractVideoId(url))
  /\ ret.val \in DOMAIN files

\* C19: a download strategy whose output file exists but is empty or nearly
\* empty (under a kilobyte) counts as failed and the next strategy is tried:
\* the file downloadAudioWithFallback returns is never such a file.
C19_EmptyDownloadRejected ==
  (pc = "dl_done" /\ ret.ok) => (ret.val \in DOMAIN files /\ files[ret.val] > 0)

\* an empty file was returned by the download and handed to the
\* transcription
C19_Witness ==
  /\ pc = "sdk_wait"
  /\ audioFilePath \in DOMAIN files
  /\ files[audioFilePath] = 0
  /\ target = audioFilePath

\* where the run is while transcribeAudioFile is in progress
StrategyPcs ==
  {"taf_begin", "sdk_wait", "sdk_track", "sdk_backoff", "sdk_diag", "direct_wait",
   "strat_done", "strat_delay"} \cup ChunkingPcs

\* C20: transcribeAudioFile tries the OpenAI SDK, then the direct HTTP call,
\* then the small-chunk strategy: it starts with the first, goes to the next
\* strategy only when the current one has thrown, returns what the first
\* strategy that does not throw returned, and throws only after the third
\* has thrown, the error of the third.
C20_TranscriptionOrder ==
  /\ [](pc \in StrategyPcs => stratIdx \in 1..NumStrategies)
  /\ []((pc = "taf_done" /\ ~ret.ok) => (stratIdx = NumStrategies /\ lastError = ret.val))
  /\ [][(pc \notin StrategyPcs /\ pc' \in StrategyPcs) =>
          (pc' = "taf_begin" /\ stratIdx' = 1)]_vars
  /\ [][(pc = "taf_begin") =>
          \/ stratIdx = 1 /\ pc' = "sdk_wait" /\ target \in uploaded'
          \/ stratIdx = 2 /\ directCtx' = "strategy"
          \/ stratIdx = NumStrategies /\ directCtx' = "single"
          \/ stratIdx = NumStrategies /\ pc' = "chunk_begin"]_vars
  /\ [][(pc \in StrategyPcs /\ stratIdx' # stratIdx) =>
          \/ pc = "strat_delay" /\ stratIdx' = stratIdx + 1 /\ lastError # Null
          \/ pc' = "taf_done"]_vars
  /\ [][(pc = "strat_done") =>
          \/ ret.ok /\ pc' = "taf_done" /\ ret' = ret
          \/ ~ret.ok /\ stratIdx < NumStrategies /\ pc' = "strat_delay" /\ lastError' = ret.val
          \/ ~ret.ok /\ stratIdx = NumStrategies /\ pc' = "taf_done" /\ ret' = ret]_vars

\* the small-chunk strategy returned a text after the SDK and the direct HTTP
\* call had failed
C20_Witness ==
  /\ pc = "taf_done"
  /\ ret.ok
  /\ stratIdx = NumStrategies
  /\ lastError # Null
  /\ Len(ret.val) > 0

\* the request of transcribeWithSDK just failed with an error the catch takes
\* for a connection error
TransientSdkFailure == pc = "sdk_wait" /\ pc' \in {"sdk_backoff", "sdk_diag"}

\* what transcribeWithSDK throws when trackOpenAIUsage rejects
TrackingFailed == Err(Wrap("Failed to transcribe audio: ", <<"usage tracking failed">>))

AttemptCap == 1 + MaxRetries(SizeLimitMB * KB)

\* the request of transcribeAudioFileDirect ran into its timeout
TransientDirectFailure == pc = "direct_wait" /\ ret' = Err(DirectTimeoutMsg)

\* each wait is twice the one before it
Doubling(ws) ==
  \A i \in 1..Len(ws) : ws[i] > 0 /\ (i > 1 => ws[i] = 2 * ws[i - 1])

PermanentSdkFailure == Err(Wrap("Failed to transcribe audio: ", <<"Incorrect API key provided">>))
PermanentErrors == {PermanentSdkFailure.val} \cup DirectErrors

\* a strategy that met a permanent error goes to the catch of
\* transcribeAudioFile at once, and that catch moves on to the next strategy
C23_FailsAtOnceAndFallsThrough ==
  /\ [][(pc = "sdk_wait" /\ ret' = PermanentSdkFailure) =>
          (pc' = "strat_done" /\ attempt' = attempt)]_vars
  /\ [][(pc = "direct_wait" /\ directCtx = "strategy" /\ ~ret'.ok) => (pc' = "strat_done")]_vars
  /\ [][(pc = "strat_done" /\ stratIdx < NumStrategies /\ ret.val \in PermanentErrors /\ ~ret.ok) =>
          (pc' = "strat_delay" /\ stratIdx' = stratIdx)]_vars
  /\ [][(pc = "strat_delay") => (pc' = "taf_begin" /\ stratIdx' = stratIdx + 1)]_vars

\* the direct HTTP request is sent for the whole file a second time, after
\* the direct HTTP strategy failed on that file with a permanent error
DirectInvokedAgain ==
  /\ pc = "direct_wait"
  /\ directCtx = "single"
  /\ lastError \in DirectErrors
  /\ target \in uploaded

\* C23: on a permanent error a strategy fails at once without a retry, the
\* next strategy is still tried, and the strategy that failed is not invoked
\* on the same file again during the call.
C23_NoSecondInvocation ==
  C23_FailsAtOnceAndFallsThrough /\ [](~DirectInvokedAgain)

\* the same property for the SDK strategy alone: an SDK request is only
\* sent by the first strategy, before any strategy has failed on the file
C23_SdkNotInvokedAgain ==
  [](pc \in {"sdk_wait", "sdk_track", "sdk_backoff", "sdk_diag"} =>
       stratIdx = 1 /\ lastError \notin PermanentErrors)

\* the direct HTTP request is in flight for the second time
C23_Witness == DirectInvokedAgain

\* a chunk is being created
CreatingPcs == {"chunk_ffcheck", "chunk_ffmpeg", "chunk_bytes", "chunk_created"}

\* the name createAudioChunk gives the chunk that starts at minute `off`
IsChunkAt(path, off) ==
  \E ts \in 0..MaxClock : path = ChunkPath(off, ts, target)

\* createAudioChunk returned no chunk, or one under 0.1 MB
NoUsableChunk ==
  /\ pc = "chunk_created"
  /\ ret.ok
  /\ (ret.val = Null \/ files[ret.val] * 10 < KB)

\* C24: the chunked strategy creates at most maxChunks chunks per call, at
\* offsets 0, 10, 20, ... minutes in increasing order, and stops creating
\* chunks at the first offset whose chunk is missing or under the minimum
\* size, or when maxChunks is reached.
C24_ChunkCreationBounded ==
  /\ [](pc \in ChunkingPcs => chunkIndex <= MaxChunks /\ Len(tempChunkPaths) <= MaxChunks)
  /\ [](pc \in CreatingPcs =>
          /\ chunkIndex < MaxChunks
          /\ Len(tempChunkPaths) = chunkIndex
          /\ IsChunkAt(chunkPath, chunkIndex * ChunkMinutes))
  /\ [](pc \in ChunkingPcs =>
          \A i \in 1..Len(tempChunkPaths) :
             IsChunkAt(tempChunkPaths[i], (i - 1) * ChunkMinutes))
  /\ [][NoUsableChunk => (pc' = "chunk_loop_end" /\ tempChunkPaths' = tempChunkPaths)]_vars
  /\ [][(pc = "chunk_begin" /\ chunkIndex = MaxChunks) => (pc' = "chunk_loop_end")]_vars
  /\ [][(pc = "chunk_loop_end") => (pc' \notin ChunkingPcs)]_vars

\* the loop ended because maxChunks chunks had been created
C24_Witness ==
  /\ pc = "chunk_loop_end"
  /\ chunkIndex = MaxChunks
  /\ Len(tempChunkPaths) = MaxChunks

\* the loop ended at an offset after the first whose chunk was too small
C24_StoppedEarly ==
  /\ pc = "chunk_loop_end"
  /\ chunkIndex \in 1..(MaxChunks - 1)
  /\ Len(tempChunkPaths) = chunkIndex
  /\ ret = NoRet

\* the creation or the transcription of a chunk after the first has failed
LaterChunkFailed ==
  /\ pc \in {"chunk_created", "chunk_tr_done"}
  /\ chunkIndex > 0
  /\ ~ret.ok

\* the loop has ended on the failed transcription of a later chunk: that
\* chunk was pushed and the index has not moved on
EndedOnLaterFailure ==
  /\ pc = "chunk_loop_end"
  /\ chunkIndex > 0
  /\ Len(tempChunkPaths) = chunkIndex + 1
  /\ ret = NoRet

\* `text` begins with `sofar`
BeginsWith(text, sofar) ==
  Len(text) >= Len(sofar) /\ SubSeq(text, 1, Len(sofar)) = sofar

\* the parts of `text` carry their labels, with ordinals that grow
LabelledInOrder(text) ==
  LET at == {i \in 1..Len(text) : text[i] = "[Part "}
      Ordinal(i) == IF \E n \in 1..MaxChunks : text[i + 1] = ToString(n)
                    THEN CHOOSE n \in 1..MaxChunks : text[i + 1] = ToString(n)
                    ELSE 0
  IN /\ Len(text) > 0 => 1 \in at
     /\ \A i \in at : i < Len(text) /\ Ordinal(i) \in 1..(chunkIndex + 1)
     /\ \A i, j \in at : i < j => Ordinal(i) < Ordinal(j)

\* C25 as stated: when a chunk after the first fails, no further chunk is
\* processed and the call returns the labelled concatenation of the chunks
\* transcribed so far instead of failing.
C25_PartialResultAlways ==
  /\ [][LaterChunkFailed => (pc' = "chunk_loop_end" /\ combined' = combined)]_vars
  /\ [](pc \in ChunkingPcs => LabelledInOrder(combined))
  /\ [][EndedOnLaterFailure => (ret'.ok /\ BeginsWith(ret'.val, combined))]_vars

\* C25, amended: when a chunk after the first fails, no further chunk is
\* processed; the call returns the labelled concatenation followed by the
\* note with the number of chunks if some chunk gave a text that is not
\* blank, and throws when every chunk so far gave a blank text.
C25_PartialResultUnlessBlank ==
  /\ [][LaterChunkFailed =>
          (pc' = "chunk_loop_end" /\ combined' = combined /\ ret' = NoRet)]_vars
  /\ [](pc \in ChunkingPcs => LabelledInOrder(combined))
  /\ [][EndedOnLaterFailure =>
          IF Len(Trim(combined)) > 0
          THEN ret' = Ok(combined \o <<"\n", "\n">> \o ChunkNote(Len(tempChunkPaths)))
          ELSE ret' = Err(Wrap(SmallChunkFailedLabel, NoChunkDataMsg))]_vars
  /\ [][(pc = "chunk_loop_end") => (pc' = "strat_done")]_vars

\* the loop ended on a later chunk's failure with a text to return
C25_Witness ==
  /\ EndedOnLaterFailure
  /\ Len(Trim(combined)) > 0

\* the positions where a strategy attempt is in flight: a subtitle request,
\* a download, a transcription request, the creation of a chunk
AttemptPcs == {"sub_fetch", "dl_wait", "sdk_wait", "direct_wait", "chunk_ffmpeg", "chunk_bytes"}

\* the attempts that carry a timeout of their own (the client's, the
\* request's, exec's)
TimedAttemptPcs == {"sdk_wait", "direct_wait", "chunk_ffmpeg"}

\* C26: within one run at most one strategy attempt is in flight: the run
\* stays at an attempt until that attempt has answered or has been ended by
\* its own timeout, and the next attempt starts only in or after that step.
C26_OneAttemptInFlight ==
  /\ [][(pc \in AttemptPcs \ TimedAttemptPcs /\ hung) => (pc' = pc)]_vars
  /\ [][(pc \in TimedAttemptPcs /\ hung /\ pc' # pc) => (~ret'.ok)]_vars
  /\ [][(pc \in AttemptPcs /\ pc' \in AttemptPcs /\ ~Hang) =>
          (pc = "sub_fetch" /\ pc' = pc /\ ~hung /\ subStep' > subStep)]_vars
  /\ [][(pc \notin AttemptPcs /\ pc' \in AttemptPcs) => (~hung /\ ~hung')]_vars

\* the second download strategy is in flight, after the first has failed
C26_Witness ==
  /\ pc = "dl_wait"
  /\ dlStep = 2
  /\ hung

\* the language of attempt k (lines 77, 96, 112) and its place in the
\* priority order
SubLang == <<"en", "en", "en", "ja", "en-US">>
LangRank(lang) == IF lang = "en" THEN 1 ELSE IF lang = "ja" THEN 2 ELSE 3

\* the positions at which getYouTubeTranscript returns a fetched text
SubReturnPcs == {"sub_cachewrite", "sub_done"}

C28_MethodsTrace ==
  /\ [][(methods' # methods) =>
          (\E e \in {methods'[Len(methods')]} : methods' = Append(methods, e))]_vars
  /\ [](/\ Len(methods) <= Len(entered)
        /\ Len(entered) <= Len(methods) + 1
        /\ \A i \in 1..Len(methods) : methods[i].method = entered[i])
  /\ [](\A i \in 1..(Len(methods) - 1) :
          ~methods[i].success /\ methods[i].error # Null)
  /\ [](pc = "returned" =>
          /\ result.methods = methods
          /\ Len(methods) = Len(entered)
          /\ methods[Len(methods)].success
          /\ <<methods[Len(methods)].method>> = result.method)

\* a run returned the description after the two earlier stages had failed
C28_Witness ==
  /\ pc = "returned"
  /\ Len(result.methods) = 3
  /\ result.method = <<"description">>

\* ------------------------------------- concurrent runs, one request table
\* The summarize route of part_005 inserts a row in summary_requests and
\* starts processSummaryRequest without awaiting it, so the processing of
\* two requests interleaves at its awaits.  `summary_requests` is the table
\* (the id of a row is its index), `articles` the summary_status column of
\* the articles table, `runs` the requests.
Articles == 1..NumRuns

\* a request that has not arrived yet
NewSumRun ==
  [pc |-> "s_idle", article_id |-> 0, request_id |-> 0, outcome |-> "none", err |-> FALSE]

\* UPDATE summary_requests SET status = ? WHERE article_id = ?
UpdateRequests(rows, articleId, status) ==
  [i \in DOMAIN rows |->
     IF rows[i].article_id = articleId THEN [rows[i] EXCEPT !.status = status] ELSE rows[i]]

\* UPDATE articles SET summary_status = ? WHERE id = ?
UpdateArticle(table, articleId, status) ==
  [a \in DOMAIN table |-> IF a = articleId THEN status ELSE table[a]]

\* the articles exist with the column's default and no request has been made
SumInit ==
  /\ url = NullUrl /\ openaiKey = TRUE /\ ffmpeg = TRUE /\ cache = <<>>
  /\ runs = [r \in Runs |-> NewSumRun]
  /\ pc = "start" /\ hung = FALSE /\ ret = NoRet
  /\ content = Null /\ method = Null /\ methods = <<>>
  /\ result = NoResult /\ thrown = NoError
  /\ normalizedUrl = NullUrl /\ videoId = Null /\ subStep = 0 /\ errors = <<>>
  /\ dlStep = 0 /\ audioFilePath = Null /\ description = Null
  /\ files = <<>> /\ clock = 0
  /\ outputPath = Null /\ splitFilePath = Null /\ target = Null /\ stratIdx = 0 /\ lastError = Null
  /\ attempt = 0 /\ waits = <<>> /\ directCtx = "none"
  /\ chunkIndex = 0 /\ chunkPath = Null /\ tempChunkPaths = <<>> /\ combined = <<>>
  /\ entered = <<>> /\ called = {} /\ uploaded = {}
  /\ articles = [a \in Articles |-> "pending"]
  /\ summary_requests = <<>> /\ scheduledTasks = <<>> /\ day = 0

\* everything but runs, articles and summary_requests
notSumV == <<url, openaiKey, ffmpeg, scheduledTasks, day, pc, hung, ret, orchV, subV,
             cache, audioV, fsV, whisperV, histV>>

\* router.post('/:id/summarize'), lines 74-139: the INSERT of the pending
\* row, whose callback starts processSummaryRequest; on a database error
\* the route answers 500 and nothing is started
SumPost(r) ==
  /\ runs[r].pc = "s_idle"
  /\ \E a \in Articles, dbError \in BOOLEAN :
       IF dbError
       THEN /\ runs' = [runs EXCEPT ![r].pc = "s_rejected", ![r].err = TRUE]
            /\ UNCHANGED summary_requests
       ELSE /\ summary_requests' =
                 Append(summary_requests, [article_id |-> a, status |-> "pending"])
            /\ runs' = [runs EXCEPT ![r].pc = "s_begin", ![r].article_id = a,
                                    ![r].request_id = Len(summary_requests) + 1]
  /\ UNCHANGED <<notSumV, articles>>

\* processSummaryRequest up to its await, lines 627-641: the UPDATE to
\* 'processing'; its error is not looked at
SumBegin(r) ==
  /\ runs[r].pc = "s_begin"
  /\ \E dbError \in BOOLEAN :
       /\ summary_requests' =
            IF dbError THEN summary_requests
            ELSE UpdateRequests(summary_requests, runs[r].article_id, "processing")
       /\ runs' = [runs EXCEPT ![r].pc = "s_work", ![r].err = dbError]
  /\ UNCHANGED <<notSumV, articles>>

\* processYouTubeSummary or processPodcastSummary has returned or thrown,
\* lines 643-689: the two UPDATEs of the try, or the two of the catch
SumWorkDone(r) ==
  /\ runs[r].pc = "s_work"
  /\ \E ok \in BOOLEAN, dbError \in BOOLEAN, dbError2 \in BOOLEAN :
       LET status == IF ok THEN "completed" ELSE "failed" IN
       /\ articles' = IF dbError THEN articles
                      ELSE UpdateArticle(articles, runs[r].article_id, status)
       /\ summary_requests' =
            IF dbError2 THEN summary_requests
            ELSE UpdateRequests(summary_requests, runs[r].article_id, status)
       /\ runs' = [runs EXCEPT ![r].pc = "s_done", ![r].outcome = status,
                               ![r].err = runs[r].err \/ dbError2]
  /\ UNCHANGED notSumV

SumNext == \E r \in Runs : SumPost(r) \/ SumBegin(r) \/ SumWorkDone(r)

SumSpec == SumInit /\ [][SumNext]_vars

\* processSummaryRequest has finished for the request of run r and the
\* database took its UPDATEs
Finished(r) == runs[r].pc = "s_done" /\ ~runs[r].err

\* C29: after processSummaryRequest has finished for a request, the status
\* of that request is completed if its own run produced a summary and failed
\* otherwise, also when two requests for one article are processed
\* concurrently with different outcomes.
C29_OwnOutcomeRecorded ==
  \A r \in Runs :
     Finished(r) => summary_requests[runs[r].request_id].status = runs[r].outcome

\* two requests for the same article have finished with different outcomes
C29_Witness ==
  /\ \A r \in Runs : Finished(r)
  /\ runs[1].article_id = runs[2].article_id
  /\ runs[1].outcome # runs[2].outcome

\* ------------------------------------------------------------ the scheduler
\* scheduler.js keeps its cron tasks in scheduledTasks; a task fires at
\* 08:00 JST on the days of its expression while it is running.  `day`
\* counts those instants (day 0 is a Sunday) and `called` keeps which task
\* fired on which day.
MaxDay == 8

\* the values RSS_SCHEDULE and the body of POST /api/scheduler/start take
Schedules == {"daily", "weekly", "producthunt", "monthly"}

\* the weekdays of '0 8 * * *', '0 8 * * 1' and '0 8 * * 0'
CronDays(name) ==
  IF name = "daily" THEN 0..6 ELSE IF name = "weekly" THEN {1} ELSE {0}

\* cron.schedule(..., { scheduled })
CronTask(name, scheduled) == [name |-> name, running |-> scheduled]

\* scheduledTasks.forEach(({ task }) => task.stop())
StopAll(tasks) == [i \in DOMAIN tasks |-> [tasks[i] EXCEPT !.running = FALSE]]

\* setSchedule, lines 45-55: every task is stopped, then the first task of
\* that name, if there is one, is started
setSchedule(tasks, schedule) ==
  LET named == {i \in DOMAIN tasks : tasks[i].name = schedule} IN
  IF named = {} THEN StopAll(tasks)
  ELSE LET first == CHOOSE i \in named : \A j \in named : i <= j
       IN [StopAll(tasks) EXCEPT ![first].running = TRUE]

SchedInit ==
  /\ url = NullUrl /\ openaiKey = TRUE /\ ffmpeg = TRUE /\ cache = <<>> /\ runs = <<>>
  /\ Idle

\* everything but scheduledTasks, day and called
notSchedV == <<url, openaiKey, ffmpeg, runs, articles, summary_requests, pc, hung, ret,
               orchV, subV, cache, audioV, fsV, whisperV, entered, uploaded>>

\* startScheduler, lines 9-43, called once when the server starts: the
\* three tasks are created, Product Hunt already running, and setSchedule is
\* called with RSS_SCHEDULE or 'daily'
StartScheduler ==
  /\ scheduledTasks = <<>>
  /\ \E defaultSchedule \in Schedules :
       scheduledTasks' =
         setSchedule(<<CronTask("daily", FALSE), CronTask("weekly", FALSE),
                       CronTask("producthunt", TRUE)>>, defaultSchedule)
  /\ UNCHANGED <<notSchedV, day, called>>

\* POST /api/scheduler/start, server.js lines 23-27
ApiSchedulerStart ==
  /\ \E schedule \in Schedules : scheduledTasks' = setSchedule(scheduledTasks, schedule)
  /\ UNCHANGED <<notSchedV, day, called>>

\* POST /api/scheduler/stop, server.js lines 29-32, and stopScheduler
ApiSchedulerStop ==
  /\ scheduledTasks' = StopAll(scheduledTasks)
  /\ UNCHANGED <<notSchedV, day, called>>

\* it is 08:00 JST of the next day: the running tasks of that weekday fire
CronTick ==
  /\ day < MaxDay
  /\ day' = day + 1
  /\ called' = called \cup
       {[name |-> scheduledTasks[i].name, day |-> day + 1] :
          i \in {j \in DOMAIN scheduledTasks :
                   scheduledTasks[j].running /\ (day + 1) % 7 \in CronDays(scheduledTasks[j].name)}}
  /\ UNCHANGED <<notSchedV, scheduledTasks>>

SchedNext == StartScheduler \/ ApiSchedulerStart \/ ApiSchedulerStop \/ CronTick

SchedSpec == SchedInit /\ [][SchedNext]_vars

\* the task of that name is running
Running(tasks, name) == \E i \in DOMAIN tasks : tasks[i].name = name /\ tasks[i].running

\* C30: once startScheduler has run the Product Hunt task is active, it
\* fires on every Sunday at 08:00 while it is, and the only step that
\* deactivates it is stopScheduler.
C30_ProductHuntStaysActive ==
  /\ [][StartScheduler => Running(scheduledTasks', "producthunt")]_vars
  /\ [][(Running(scheduledTasks, "producthunt") /\ ~Running(scheduledTasks', "producthunt")) =>
          ApiSchedulerStop]_vars
  /\ [][(CronTick /\ Running(scheduledTasks, "producthunt") /\ day' % 7 = 0) =>
          ([name |-> "producthunt", day |-> day'] \in called')]_vars

\* a Sunday has passed after startScheduler ran with the daily schedule, the
\* scheduler was never stopped, and the Product Hunt task did not fire
C30_Witness ==
  /\ scheduledTasks # <<>>
  /\ Running(scheduledTasks, "daily")
  /\ ~Running(scheduledTasks, "producthunt")
  /\ [name |-> "daily", day |-> 7] \in called
  /\ [name |-> "producthunt", day |-> 7] \notin called

====
